---- MODULE Spec2Model ----
(***************************************************************************)
(* synkronus: provider registry, provider factory and the storage          *)
(* aggregation service (internal/provider/registry, internal/provider/     *)
(* factory, internal/service).                                             *)
(*                                                                         *)
(* Strings that the code case-folds are sequences of ASCII codes, so that  *)
(* strings.ToLower is computed and not assumed.  A nil pointer is the      *)
(* empty tuple and a non-nil pointer is a one-element tuple.               *)
(***************************************************************************)
EXTENDS Integers, Sequences, FiniteSets, Bags, TLC

----------------------------------------------------------------------------
(* Bounds *)

\* largest number of provider names handed to ListAllBuckets
MaxProviders == 2

\* largest number of buckets one provider's ListBuckets returns
MaxBuckets == 2

\* number of goroutines calling into the registry
MaxCallers == 2

\* largest number of names in a --providers request
MaxRequested == 3

----------------------------------------------------------------------------
(* Provider names *)

\* "gcp"
gcp == <<103, 99, 112>>
\* "GCP"
GCP == <<71, 67, 80>>
\* "aws"
aws == <<97, 119, 115>>
\* "AWS"
AWS == <<65, 87, 83>>
\* "s3"
s3 == <<115, 51>>

\* strings.ToLower on ASCII: 'A'..'Z' are moved to 'a'..'z', the rest is kept
ToLower(s) ==
    [i \in 1..Len(s) |-> IF s[i] >= 65 /\ s[i] <= 90 THEN s[i] + 32 ELSE s[i]]

\* the order of Go strings (bytewise lexicographic), used by sort.Strings
RECURSIVE StrLess(_, _)
StrLess(a, b) ==
    IF a = <<>> THEN b # <<>>
    ELSE IF b = <<>> THEN FALSE
    ELSE IF Head(a) # Head(b) THEN Head(a) < Head(b)
    ELSE StrLess(Tail(a), Tail(b))

\* one step of an insertion sort: x placed before the first larger element
RECURSIVE InsertSorted(_, _)
InsertSorted(x, s) ==
    IF s = <<>> THEN <<x>>
    ELSE IF StrLess(x, Head(s)) THEN <<x>> \o s
    ELSE <<Head(s)>> \o InsertSorted(x, Tail(s))

\* sort.Strings
RECURSIVE SortStrings(_)
SortStrings(s) ==
    IF s = <<>> THEN <<>> ELSE InsertSorted(Head(s), SortStrings(Tail(s)))

\* the keys of a map in the order one iteration (range) visits them
RECURSIVE RangeOrder(_)
RangeOrder(S) ==
    IF S = {} THEN <<>>
    ELSE LET x == CHOOSE y \in S : TRUE IN <<x>> \o RangeOrder(S \ {x})

----------------------------------------------------------------------------
(* Configuration snapshot *)

\* config.Config: two optional blocks
Configs ==
    [GCP : {<<>>, <<[Project |-> ""]>>, <<[Project |-> "proj"]>>},
     AWS : {<<>>, <<[Region |-> ""]>>, <<[Region |-> "eu"]>>}]

\* gcp.isConfigured
gcpIsConfigured(c) == c.GCP # <<>> /\ c.GCP[1].Project # ""

\* the aws configuration predicate
awsIsConfigured(c) == c.AWS # <<>> /\ c.AWS[1].Region # ""

----------------------------------------------------------------------------
(* Registrations *)

\* an absent function value
NilFunc == "nil"

\* registry.ProviderRegistration: the two functions, by name
gcpRegistration == [ConfigCheck |-> "gcp.isConfigured", Initializer |-> "gcp.initialize"]
awsRegistration == [ConfigCheck |-> "aws.isConfigured", Initializer |-> "aws.initialize"]

\* registration.ConfigCheck(cfg)
ConfigCheck(reg, c) ==
    IF reg.ConfigCheck = "gcp.isConfigured" THEN gcpIsConfigured(c)
    ELSE awsIsConfigured(c)

\* gcp.initialize: sdkOk is whether the SDK's client construction succeeds;
\* the result is the client's provider identity, or "" with an error
gcpInitialize(c, sdkOk) ==
    IF ~gcpIsConfigured(c)
    THEN [client |-> "", err |-> "GCP configuration missing or incomplete"]
    ELSE IF sdkOk THEN [client |-> "GCP", err |-> ""]
    ELSE [client |-> "", err |-> "failed to create GCP storage client"]

\* the aws client constructor: builds the client or fails
awsInitialize(c, sdkOk) ==
    IF sdkOk THEN [client |-> "AWS", err |-> ""]
    ELSE [client |-> "", err |-> "failed to create AWS storage client"]

\* registration.Initializer(ctx, cfg, logger)
Initializer(reg, c, sdkOk) ==
    IF reg.Initializer = "gcp.initialize" THEN gcpInitialize(c, sdkOk)
    ELSE awsInitialize(c, sdkOk)

----------------------------------------------------------------------------
(* Registry: pure views of the map *)

\* the registry when both built-in backends have registered themselves
BuiltinRegistry ==
    [n \in {gcp, aws} |-> IF n = gcp THEN gcpRegistration ELSE awsRegistration]

\* the body of registry.GetSupportedProviders on map m
SupportedOf(m) == SortStrings(RangeOrder(DOMAIN m))

\* the body of registry.IsSupported on map m
IsSupportedIn(m, providerName) == ToLower(providerName) \in DOMAIN m

\* GetRegistration looking the name up as given, not case-folded
GetRegistrationIn_KeepCase(m, providerName) ==
    IF providerName \in DOMAIN m
    THEN [registration |-> m[providerName], exists |-> TRUE]
    ELSE [registration |-> [ConfigCheck |-> NilFunc, Initializer |-> NilFunc],
          exists |-> FALSE]

\* the body of registry.GetRegistration on map m: (registration, exists)
GetRegistrationIn(m, providerName) ==
    IF ToLower(providerName) \in DOMAIN m
    THEN [registration |-> m[ToLower(providerName)], exists |-> TRUE]
    ELSE [registration |-> [ConfigCheck |-> NilFunc, Initializer |-> NilFunc],
          exists |-> FALSE]

----------------------------------------------------------------------------
(* Factory *)

\* GetConfiguredProviders going through the two built-in names and their
\* configuration blocks, not through the registry
GetConfiguredProviders_Builtin(m, c) ==
    SortStrings(SelectSeq(<<gcp, aws>>,
                          LAMBDA name : IF name = gcp THEN gcpIsConfigured(c)
                                        ELSE awsIsConfigured(c)))

\* Factory.GetConfiguredProviders on registry m and snapshot c: the range
\* over the copy of the map, the filter and the sort
GetConfiguredProviders(m, c) ==
    SortStrings(SelectSeq(RangeOrder(DOMAIN m), LAMBDA name : ConfigCheck(m[name], c)))

\* Factory.IsConfigured(providerName) on registry m and snapshot c
IsConfigured(m, c, providerName) ==
    LET r == GetRegistrationIn(m, providerName)
    IN  IF ~r.exists THEN FALSE ELSE ConfigCheck(r.registration, c)

\* GetStorageProvider with the configured names, not the supported ones, in
\* the unsupported-provider error
GetStorageProvider_ConfiguredList(m, c, providerName, sdkOk) ==
    LET normalizedName == ToLower(providerName)
        r == GetRegistrationIn(m, normalizedName)
    IN  IF ~r.exists
        THEN [kind |-> "unsupported", client |-> "", name |-> providerName,
              supported |-> GetConfiguredProviders(m, c), cause |-> "",
              checks |-> Len(RangeOrder(DOMAIN m)), inits |-> 0]
        ELSE IF ~ConfigCheck(r.registration, c)
        THEN [kind |-> "notconfigured", client |-> "", name |-> normalizedName,
              supported |-> <<>>, cause |-> "", checks |-> 1, inits |-> 0]
        ELSE LET i == Initializer(r.registration, c, sdkOk)
             IN  IF i.err # ""
                 THEN [kind |-> "initfailed", client |-> "", name |-> normalizedName,
                       supported |-> <<>>, cause |-> i.err, checks |-> 1, inits |-> 1]
                 ELSE [kind |-> "ok", client |-> i.client, name |-> normalizedName,
                       supported |-> <<>>, cause |-> "", checks |-> 1, inits |-> 1]

\* GetStorageProvider with the initializer run before the configuration check
GetStorageProvider_InitFirst(m, c, providerName, sdkOk) ==
    LET normalizedName == ToLower(providerName)
        r == GetRegistrationIn(m, normalizedName)
    IN  IF ~r.exists
        THEN [kind |-> "unsupported", client |-> "", name |-> providerName,
              supported |-> SupportedOf(m), cause |-> "", checks |-> 0, inits |-> 0]
        ELSE LET i == Initializer(r.registration, c, sdkOk)
             IN  IF i.err # ""
                 THEN [kind |-> "initfailed", client |-> "", name |-> normalizedName,
                       supported |-> <<>>, cause |-> i.err, checks |-> 0, inits |-> 1]
                 ELSE IF ~ConfigCheck(r.registration, c)
                 THEN [kind |-> "notconfigured", client |-> "", name |-> normalizedName,
                       supported |-> <<>>, cause |-> "", checks |-> 1, inits |-> 1]
                 ELSE [kind |-> "ok", client |-> i.client, name |-> normalizedName,
                       supported |-> <<>>, cause |-> "", checks |-> 1, inits |-> 1]

\* GetStorageProvider with the initializer's error formatted into the message
\* (%v) and not wrapped
GetStorageProvider_DropCause(m, c, providerName, sdkOk) ==
    LET normalizedName == ToLower(providerName)
        r == GetRegistrationIn(m, normalizedName)
    IN  IF ~r.exists
        THEN [kind |-> "unsupported", client |-> "", name |-> providerName,
              supported |-> SupportedOf(m), cause |-> "", checks |-> 0, inits |-> 0]
        ELSE IF ~ConfigCheck(r.registration, c)
        THEN [kind |-> "notconfigured", client |-> "", name |-> normalizedName,
              supported |-> <<>>, cause |-> "", checks |-> 1, inits |-> 0]
        ELSE LET i == Initializer(r.registration, c, sdkOk)
             IN  IF i.err # ""
                 THEN [kind |-> "initfailed", client |-> "", name |-> normalizedName,
                       supported |-> <<>>, cause |-> "", checks |-> 1, inits |-> 1]
                 ELSE [kind |-> "ok", client |-> i.client, name |-> normalizedName,
                       supported |-> <<>>, cause |-> "", checks |-> 1, inits |-> 1]

\* Factory.GetStorageProvider(ctx, providerName) on registry m and snapshot c;
\* checks and inits count the invocations of registration.ConfigCheck and of
\* registration.Initializer, cause is the error wrapped with %w
GetStorageProvider(m, c, providerName, sdkOk) ==
    LET normalizedName == ToLower(providerName)
        r == GetRegistrationIn(m, normalizedName)
    IN  IF ~r.exists
        THEN [kind |-> "unsupported", client |-> "", name |-> providerName,
              supported |-> SupportedOf(m), cause |-> "", checks |-> 0, inits |-> 0]
        ELSE IF ~ConfigCheck(r.registration, c)
        THEN [kind |-> "notconfigured", client |-> "", name |-> normalizedName,
              supported |-> <<>>, cause |-> "", checks |-> 1, inits |-> 0]
        ELSE LET i == Initializer(r.registration, c, sdkOk)
             IN  IF i.err # ""
                 THEN [kind |-> "initfailed", client |-> "", name |-> normalizedName,
                       supported |-> <<>>, cause |-> i.err, checks |-> 1, inits |-> 1]
                 ELSE [kind |-> "ok", client |-> i.client, name |-> normalizedName,
                       supported |-> <<>>, cause |-> "", checks |-> 1, inits |-> 1]

----------------------------------------------------------------------------
(* The list-buckets command: validation of the requested provider names *)

\* the white space strings.TrimSpace removes (ASCII): \t \n \v \f \r and ' '
IsSpace(ch) == ch \in {9, 10, 11, 12, 13, 32}

\* strings.TrimSpace: leading and trailing white space removed
RECURSIVE TrimLeft(_)
TrimLeft(s) ==
    IF s # <<>> /\ IsSpace(Head(s)) THEN TrimLeft(Tail(s)) ELSE s

RECURSIVE TrimRight(_)
TrimRight(s) ==
    IF s # <<>> /\ IsSpace(s[Len(s)]) THEN TrimRight(SubSeq(s, 1, Len(s) - 1)) ELSE s

TrimSpace(s) == TrimRight(TrimLeft(s))

\* the result of resolveProvidersForList: the providers, and the error by
\* kind ("" is nil) with the names and lists its message is formatted from
ResolveResult(providers, kind, name, invalid, supported) ==
    [providers |-> providers, kind |-> kind, name |-> name, invalid |-> invalid,
     supported |-> supported]

\* resolveLoop without the seen map: a repeated name is validated again
RECURSIVE resolveLoop_NoDedup(_, _, _, _, _, _)
resolveLoop_NoDedup(m, c, rest, validatedProviders, invalidProviders, seen) ==
    IF rest = <<>>
    THEN IF Len(invalidProviders) > 0
         THEN ResolveResult(<<>>, "unsupported", <<>>, invalidProviders, SupportedOf(m))
         ELSE ResolveResult(validatedProviders, "", <<>>, <<>>, <<>>)
    ELSE LET p == ToLower(TrimSpace(Head(rest)))
         IN  IF IsSupportedIn(m, p)
             THEN IF IsConfigured(m, c, p)
                  THEN resolveLoop_NoDedup(m, c, Tail(rest), validatedProviders \o <<p>>,
                                           invalidProviders, seen)
                  ELSE ResolveResult(<<>>, "notconfigured", p, <<>>, <<>>)
             ELSE resolveLoop_NoDedup(m, c, Tail(rest), validatedProviders,
                                      invalidProviders \o <<p>>, seen)

\* resolveLoop taking every supported name, configured or not
RECURSIVE resolveLoop_NoConfigCheck(_, _, _, _, _, _)
resolveLoop_NoConfigCheck(m, c, rest, validatedProviders, invalidProviders, seen) ==
    IF rest = <<>>
    THEN IF Len(invalidProviders) > 0
         THEN ResolveResult(<<>>, "unsupported", <<>>, invalidProviders, SupportedOf(m))
         ELSE ResolveResult(validatedProviders, "", <<>>, <<>>, <<>>)
    ELSE LET p == ToLower(TrimSpace(Head(rest)))
         IN  IF p \in seen
             THEN resolveLoop_NoConfigCheck(m, c, Tail(rest), validatedProviders,
                                            invalidProviders, seen)
             ELSE IF IsSupportedIn(m, p)
             THEN resolveLoop_NoConfigCheck(m, c, Tail(rest), validatedProviders \o <<p>>,
                                            invalidProviders, seen \cup {p})
             ELSE resolveLoop_NoConfigCheck(m, c, Tail(rest), validatedProviders,
                                            invalidProviders \o <<p>>, seen \cup {p})

\* the loop of resolveProvidersForList over the rest of the request, with the
\* values of validatedProviders, invalidProviders and seen, and what follows it
RECURSIVE resolveLoop(_, _, _, _, _, _)
resolveLoop(m, c, rest, validatedProviders, invalidProviders, seen) ==
    IF rest = <<>>
    THEN IF Len(invalidProviders) > 0
         THEN ResolveResult(<<>>, "unsupported", <<>>, invalidProviders, SupportedOf(m))
         ELSE ResolveResult(validatedProviders, "", <<>>, <<>>, <<>>)
    ELSE LET p == ToLower(TrimSpace(Head(rest)))
         IN  IF p \in seen
             THEN resolveLoop(m, c, Tail(rest), validatedProviders, invalidProviders, seen)
             ELSE IF IsSupportedIn(m, p)
             THEN IF IsConfigured(m, c, p)
                  THEN resolveLoop(m, c, Tail(rest), validatedProviders \o <<p>>,
                                   invalidProviders, seen \cup {p})
                  ELSE ResolveResult(<<>>, "notconfigured", p, <<>>, <<>>)
             ELSE resolveLoop(m, c, Tail(rest), validatedProviders,
                              invalidProviders \o <<p>>, seen \cup {p})

\* resolveProvidersForList(requestedProviders, factory) on registry m and
\* snapshot c
resolveProvidersForList(m, c, requestedProviders) ==
    IF Len(requestedProviders) = 0
    THEN ResolveResult(GetConfiguredProviders(m, c), "", <<>>, <<>>, <<>>)
    ELSE resolveLoop(m, c, requestedProviders, <<>>, <<>>, {})

----------------------------------------------------------------------------
(* State *)

VARIABLES
    providerRegistry,   \* registry.providerRegistry: lower-case name -> registration
    registryMu,         \* registry.registryMu: [writer |-> BOOLEAN, readers |-> Nat]
    cfg,                \* Factory.cfg: the configuration snapshot
    log,                \* the records written to StorageService.logger (a bag)
    \* ListAllBuckets: the calling goroutine
    providerNames,      \* the argument
    mpc,                \* position: "idle", "loop", "wait", "returned"
    idx,                \* position of the range loop over providerNames
    wg,                 \* sync.WaitGroup counter
    mu,                 \* sync.Mutex: TRUE when locked
    allBuckets,         \* the merged result
    ret,                \* the returned (buckets, error)
    \* ListAllBuckets: one goroutine per position of providerNames
    tpc,                \* position of goroutine i
    client,             \* its client: the provider identity, "" when nil
    err,                \* its err
    buckets,            \* its buckets
    tmp,                \* the slice value append has read
    opens,              \* clients constructed for goroutine i
    closeCalls,         \* Close calls made by goroutine i
    resolveCalls,       \* GetStorageProvider calls made by goroutine i
    listCalls,          \* ListBuckets calls made by goroutine i
    listCtx,            \* the context goroutine i passed to ListBuckets, <<>> when none
    \* a single-provider operation of StorageService
    spc,                \* position: "idle", "resolve", "call", "close", "return", "returned"
    sop,                \* the operation and its providerName argument
    sclient,            \* its client: the provider identity, "" when nil
    sres,               \* the named results: value and error chain
    sopens,             \* clients constructed for the operation
    scloseCalls,        \* Close calls made by the operation
    scalls,             \* capability calls made by the operation
    \* goroutines calling into the registry
    rpc,                \* position of caller p: "idle", "body", "done"
    rcall,              \* its call: function, name and registration arguments
    rres,               \* its result: panic message, or the returned values
    \* a caller of the factory and of the provider-name validation
    fcall,              \* the call: function and arguments
    fres,               \* what it returned
    \* the list-buckets command
    cpc,                \* position: "idle", "validated", "returned"
    cmdret,             \* providersToQuery, the error RunE returns, what it prints
    \* the caller's context and the backends' blocking calls
    cancelled,          \* TRUE once ctx has been cancelled
    hung,               \* TRUE for goroutine i when its ListBuckets call never returns
    \* map iteration
    visited,            \* the keys of the registry in the order the last range met them
    \* the delete-bucket command
    dpc,                \* position: "idle", "confirm", "delete", "returned"
    dcmd,               \* its arguments and flags, and what Confirm read and answered
    dret,               \* the error RunE returns (a chain, <<>> is nil) and what it prints
    \* a call into the GCP backend
    ucall,              \* the operation and what the Google APIs answer during it
    ures,               \* the buckets and the error it returned
    \* process start-up
    startup,            \* the backend packages whose init has run, a panic, main entered
    \* one Factory.GetStorageProvider call, statement by statement
    gsp                 \* its position and its locals

svcVars == <<providerNames, mpc, idx, wg, mu, allBuckets, ret,
             tpc, client, err, buckets, tmp, opens, closeCalls,
             resolveCalls, listCalls, listCtx>>

envVars == <<providerRegistry, registryMu, cfg>>

opVars == <<spc, sop, sclient, sres, sopens, scloseCalls, scalls>>

callerVars == <<rpc, rcall, rres>>

facVars == <<fcall, fres>>

cmdVars == <<cpc, cmdret>>

ctxVars == <<cancelled, hung>>

delVars == <<dpc, dcmd, dret>>

gcpVars == <<ucall, ures>>

\* the state only the later sections' actions change
auxVars == <<ctxVars, visited, delVars, gcpVars, startup, gsp>>

\* the per-goroutine call counters of ListAllBuckets
taskCalls == <<resolveCalls, listCalls, listCtx>>

vars == <<providerRegistry, registryMu, cfg, log, providerNames, mpc, idx, wg, mu,
          allBuckets, ret, tpc, client, err, buckets, tmp, opens, closeCalls,
          spc, sop, sclient, sres, sopens, scloseCalls, scalls, rpc, rcall, rres,
          resolveCalls, listCalls, listCtx, fcall, fres, cpc, cmdret,
          cancelled, hung, visited, dpc, dcmd, dret, ucall, ures,
          startup, gsp>>

\* what ListAllBuckets leaves alone
svcFrame == <<envVars, opVars, callerVars, facVars, cmdVars, auxVars>>

\* the goroutines ListAllBuckets can start
Tasks == 1..MaxProviders

\* the context the caller hands to ListAllBuckets
Ctx == "cmd.Context()"

\* provider names a caller passes to the service
ServiceNames == {gcp, AWS, s3}

\* the argument lists of ListAllBuckets
NameLists == UNION {[1..n -> ServiceNames] : n \in 0..MaxProviders}

\* storage.Bucket, reduced to its name and its provider
Bucket(n, p) == [Name |-> n, Provider |-> p]

\* what a backend's ListBuckets can return for a client of provider p:
\* an error (with no data or with partial data), or up to MaxBuckets buckets
\* in either order
ListBucketsOutcomes(p) ==
    {[buckets |-> <<>>, err |-> "operation failed"],
     [buckets |-> <<Bucket(1, p)>>, err |-> "operation failed"]}
    \cup {[buckets |-> [j \in 1..k |-> Bucket(j, p)], err |-> ""] : k \in 0..MaxBuckets}
    \cup {[buckets |-> [j \in 1..k |-> Bucket(k + 1 - j, p)], err |-> ""] : k \in 2..MaxBuckets}

\* one record on the diagnostic sink
LogRecord(level, msg, provider) == [level |-> level, msg |-> msg, provider |-> provider]

\* logger.Error / logger.Debug
Logged(l, level, msg, provider) == l (+) SetToBag({LogRecord(level, msg, provider)})

InitService ==
    /\ log = EmptyBag
    /\ providerNames = <<>>
    /\ mpc = "idle"
    /\ idx = 0
    /\ wg = 0
    /\ mu = FALSE
    /\ allBuckets = <<>>
    /\ ret = [buckets |-> <<>>, err |-> ""]
    /\ tpc = [i \in Tasks |-> "none"]
    /\ client = [i \in Tasks |-> ""]
    /\ err = [i \in Tasks |-> ""]
    /\ buckets = [i \in Tasks |-> <<>>]
    /\ tmp = [i \in Tasks |-> <<>>]
    /\ opens = [i \in Tasks |-> 0]
    /\ closeCalls = [i \in Tasks |-> 0]
    /\ resolveCalls = [i \in Tasks |-> 0]
    /\ listCalls = [i \in Tasks |-> 0]
    /\ listCtx = [i \in Tasks |-> <<>>]

\* no single-provider operation is running
InitOps ==
    /\ spc = "idle"
    /\ sop = [op |-> "", providerName |-> <<>>]
    /\ sclient = ""
    /\ sres = [value |-> "", err |-> <<>>]
    /\ sopens = 0
    /\ scloseCalls = 0
    /\ scalls = 0

\* the goroutines that call into the registry
Callers == 1..MaxCallers

\* the zero ProviderRegistration
NoRegistration == [ConfigCheck |-> NilFunc, Initializer |-> NilFunc]

\* the map made by make(map[string]ProviderRegistration)
EmptyRegistry == [n \in {} |-> NoRegistration]

\* no call and no result
NoCall == [fn |-> "", name |-> <<>>, registration |-> NoRegistration]
NoResult ==
    [panic |-> "", exists |-> FALSE, registration |-> NoRegistration,
     providers |-> <<>>, registrations |-> EmptyRegistry]

\* no goroutine is inside the registry
InitCallers ==
    /\ rpc = [p \in Callers |-> "idle"]
    /\ rcall = [p \in Callers |-> NoCall]
    /\ rres = [p \in Callers |-> NoResult]

\* no call into the factory has been made
NoFactoryCall == [fn |-> "", name |-> <<>>, requested |-> <<>>, sdkOk |-> FALSE]
NoFactoryResult ==
    [kind |-> "", client |-> "", name |-> <<>>, supported |-> <<>>, cause |-> "",
     checks |-> 0, inits |-> 0, configured |-> FALSE, providers |-> <<>>,
     invalid |-> <<>>]

\* the list-buckets command has not run
NoCmdResult == [providers |-> <<>>, err |-> NoFactoryResult, out |-> ""]

\* the delete-bucket command has not run
NoDeleteCmd ==
    [bucketName |-> <<>>, providerName |-> <<>>, force |-> FALSE,
     stdin |-> [data |-> <<>>, term |-> ""], prompted |-> FALSE, confirmed |-> FALSE]
NoDeleteResult == [err |-> <<>>, out |-> ""]

InitDelete ==
    /\ dpc = "idle"
    /\ dcmd = NoDeleteCmd
    /\ dret = NoDeleteResult

\* no call into the GCP backend has been made
NoUsageCall ==
    [fn |-> "", bucketName |-> "", metrics |-> [series |-> <<>>, end |-> ""],
     listing |-> [names |-> <<>>, end |-> ""]]
NoUsageResult == [buckets |-> <<>>, err |-> ""]

InitUsage ==
    /\ ucall = NoUsageCall
    /\ ures = NoUsageResult

\* the context is live and no backend call is stuck
InitCtx ==
    /\ cancelled = FALSE
    /\ hung = [i \in Tasks |-> FALSE]

\* no GetStorageProvider call is being followed
NoResolve ==
    [pc |-> "idle", providerName |-> <<>>, exists |-> FALSE,
     registration |-> [ConfigCheck |-> NilFunc, Initializer |-> NilFunc],
     kind |-> "", supported |-> <<>>]

\* no call of any kind is under way
InitCalls ==
    /\ fcall = NoFactoryCall
    /\ fres = NoFactoryResult
    /\ cpc = "idle"
    /\ cmdret = NoCmdResult
    /\ InitCtx
    /\ visited = <<>>
    /\ InitDelete
    /\ InitUsage
    /\ gsp = NoResolve

\* start-up is over: the init functions that ran are those of the registered
\* names, none panicked, and main is running
InitProcess ==
    startup = [ran |-> DOMAIN providerRegistry, panic |-> "", main |-> TRUE]

InitFactory == InitCalls /\ InitProcess

\* a process after start-up: both backends registered, any configuration loaded
InitEnv ==
    /\ providerRegistry = BuiltinRegistry
    /\ registryMu = [writer |-> FALSE, readers |-> 0]
    /\ cfg \in Configs

----------------------------------------------------------------------------
(* StorageService.ListAllBuckets *)

\* ListAllBuckets without the len(providerNames) == 0 return: an empty
\* argument runs through the loop to wg.Wait()
ListAllBuckets_NoEmptyCheck(names) ==
    /\ mpc = "idle"
    /\ providerNames' = names
    /\ log' = Logged(log, "DEBUG", "Starting ListAllBuckets operation", <<>>)
    /\ mpc' = IF Len(names) = 0 THEN "wait" ELSE "loop"
    /\ idx' = 1
    /\ UNCHANGED <<ret, wg, mu, allBuckets, tpc, client, err, buckets, tmp, opens,
                   closeCalls>>
    /\ UNCHANGED taskCalls
    /\ UNCHANGED svcFrame

\* entry: the empty-argument return, or the start of the fan-out
ListAllBuckets(names) ==
    /\ mpc = "idle"
    /\ providerNames' = names
    /\ IF Len(names) = 0
       THEN /\ ret' = [buckets |-> <<>>, err |-> ""]
            /\ mpc' = "returned"
            /\ UNCHANGED <<log, idx>>
       ELSE /\ log' = Logged(log, "DEBUG", "Starting ListAllBuckets operation", <<>>)
            /\ mpc' = "loop"
            /\ idx' = 1
            /\ UNCHANGED ret
    /\ UNCHANGED <<wg, mu, allBuckets, tpc, client, err, buckets, tmp, opens, closeCalls>>
    /\ UNCHANGED taskCalls
    /\ UNCHANGED svcFrame

\* one iteration of the range loop: wg.Add(1); go func(pName)
Spawn ==
    /\ mpc = "loop"
    /\ wg' = wg + 1
    /\ tpc' = [tpc EXCEPT ![idx] = "resolve"]
    /\ idx' = idx + 1
    /\ mpc' = IF idx = Len(providerNames) THEN "wait" ELSE "loop"
    /\ UNCHANGED <<providerNames, mu, allBuckets, ret, client, err, buckets, tmp,
                   opens, closeCalls, log>>
    /\ UNCHANGED taskCalls
    /\ UNCHANGED svcFrame

\* TaskResolve with the resolve error dropped without a record
TaskResolve_Silent(i) ==
    /\ tpc[i] = "resolve"
    /\ resolveCalls' = [resolveCalls EXCEPT ![i] = @ + 1]
    /\ \E sdkOk \in BOOLEAN :
         LET r == GetStorageProvider(providerRegistry, cfg, providerNames[i], sdkOk)
         IN  IF r.kind # "ok"
             THEN /\ err' = [err EXCEPT ![i] = r.kind]
                  /\ tpc' = [tpc EXCEPT ![i] = "wgdone"]
                  /\ UNCHANGED <<client, opens>>
             ELSE /\ client' = [client EXCEPT ![i] = r.client]
                  /\ opens' = [opens EXCEPT ![i] = @ + 1]
                  /\ tpc' = [tpc EXCEPT ![i] = "list"]
                  /\ UNCHANGED err
    /\ UNCHANGED <<providerNames, mpc, idx, wg, mu, allBuckets, ret, buckets, tmp,
                   closeCalls, log>>
    /\ UNCHANGED <<listCalls, listCtx>>
    /\ UNCHANGED svcFrame

\* TaskResolve in a group that gives up on the first error: the goroutines
\* that have not made their call yet end without making it
TaskResolve_AbortSiblings(i) ==
    /\ tpc[i] = "resolve"
    /\ resolveCalls' = [resolveCalls EXCEPT ![i] = @ + 1]
    /\ \E sdkOk \in BOOLEAN :
         LET r == GetStorageProvider(providerRegistry, cfg, providerNames[i], sdkOk)
         IN  IF r.kind # "ok"
             THEN /\ err' = [err EXCEPT ![i] = r.kind]
                  /\ log' = Logged(log, "ERROR", "Failed to initialize provider client",
                                   providerNames[i])
                  /\ tpc' = [j \in Tasks |->
                                IF j = i \/ tpc[j] = "resolve" THEN "wgdone" ELSE tpc[j]]
                  /\ UNCHANGED <<client, opens>>
             ELSE /\ client' = [client EXCEPT ![i] = r.client]
                  /\ opens' = [opens EXCEPT ![i] = @ + 1]
                  /\ tpc' = [tpc EXCEPT ![i] = "list"]
                  /\ UNCHANGED <<err, log>>
    /\ UNCHANGED <<providerNames, mpc, idx, wg, mu, allBuckets, ret, buckets, tmp,
                   closeCalls>>
    /\ UNCHANGED <<listCalls, listCtx>>
    /\ UNCHANGED svcFrame

\* client, err := s.providerFactory.GetStorageProvider(ctx, pName), and the
\* error branch
TaskResolve(i) ==
    /\ tpc[i] = "resolve"
    /\ resolveCalls' = [resolveCalls EXCEPT ![i] = @ + 1]
    /\ \E sdkOk \in BOOLEAN :
         LET r == GetStorageProvider(providerRegistry, cfg, providerNames[i], sdkOk)
         IN  IF r.kind # "ok"
             THEN /\ err' = [err EXCEPT ![i] = r.kind]
                  /\ log' = Logged(log, "ERROR", "Failed to initialize provider client",
                                   providerNames[i])
                  /\ tpc' = [tpc EXCEPT ![i] = "wgdone"]
                  /\ UNCHANGED <<client, opens>>
             ELSE /\ client' = [client EXCEPT ![i] = r.client]
                  /\ opens' = [opens EXCEPT ![i] = @ + 1]
                  /\ tpc' = [tpc EXCEPT ![i] = "list"]
                  /\ UNCHANGED <<err, log>>
    /\ UNCHANGED <<providerNames, mpc, idx, wg, mu, allBuckets, ret, buckets, tmp,
                   closeCalls>>
    /\ UNCHANGED <<listCalls, listCtx>>
    /\ UNCHANGED svcFrame

\* client.ListBuckets(ctx) is entered
TaskListCall(i) ==
    /\ tpc[i] = "list"
    /\ tpc' = [tpc EXCEPT ![i] = "listing"]
    /\ listCalls' = [listCalls EXCEPT ![i] = @ + 1]
    /\ listCtx' = [listCtx EXCEPT ![i] = <<Ctx>>]
    /\ UNCHANGED <<providerNames, mpc, idx, wg, mu, allBuckets, ret, client, err,
                   buckets, tmp, opens, closeCalls, log>>
    /\ UNCHANGED resolveCalls
    /\ UNCHANGED svcFrame

\* TaskListReturn with the ListBuckets error dropped without a record
TaskListReturn_Silent(i) ==
    /\ tpc[i] = "listing"
    /\ \E out \in ListBucketsOutcomes(client[i]) :
         /\ buckets' = [buckets EXCEPT ![i] = out.buckets]
         /\ IF out.err # ""
            THEN /\ err' = [err EXCEPT ![i] = out.err]
                 /\ tpc' = [tpc EXCEPT ![i] = "close"]
            ELSE /\ tpc' = [tpc EXCEPT ![i] = "lock"]
                 /\ UNCHANGED err
    /\ UNCHANGED <<providerNames, mpc, idx, wg, mu, allBuckets, ret, client, tmp,
                   opens, closeCalls, log>>
    /\ UNCHANGED taskCalls
    /\ UNCHANGED svcFrame

\* TaskListReturn with Close called at the end of the function instead of
\* deferred: the error return skips it
TaskListReturn_NoClose(i) ==
    /\ tpc[i] = "listing"
    /\ \E out \in ListBucketsOutcomes(client[i]) :
         /\ buckets' = [buckets EXCEPT ![i] = out.buckets]
         /\ IF out.err # ""
            THEN /\ err' = [err EXCEPT ![i] = out.err]
                 /\ log' = Logged(log, "ERROR", "Failed to list buckets from provider",
                                  providerNames[i])
                 /\ tpc' = [tpc EXCEPT ![i] = "wgdone"]
            ELSE /\ tpc' = [tpc EXCEPT ![i] = "lock"]
                 /\ UNCHANGED <<err, log>>
    /\ UNCHANGED <<providerNames, mpc, idx, wg, mu, allBuckets, ret, client, tmp,
                   opens, closeCalls>>
    /\ UNCHANGED taskCalls
    /\ UNCHANGED svcFrame

\* buckets, err := client.ListBuckets(ctx) returns, and the error branch
TaskListReturn(i) ==
    /\ tpc[i] = "listing"
    /\ \E out \in ListBucketsOutcomes(client[i]) :
         /\ buckets' = [buckets EXCEPT ![i] = out.buckets]
         /\ IF out.err # ""
            THEN /\ err' = [err EXCEPT ![i] = out.err]
                 /\ log' = Logged(log, "ERROR", "Failed to list buckets from provider",
                                  providerNames[i])
                 /\ tpc' = [tpc EXCEPT ![i] = "close"]
            ELSE /\ tpc' = [tpc EXCEPT ![i] = "lock"]
                 /\ UNCHANGED <<err, log>>
    /\ UNCHANGED <<providerNames, mpc, idx, wg, mu, allBuckets, ret, client, tmp,
                   opens, closeCalls>>
    /\ UNCHANGED taskCalls
    /\ UNCHANGED svcFrame

\* TaskLock with a lock that never blocks
TaskLock_NoMutex(i) ==
    /\ tpc[i] = "lock"
    /\ mu' = TRUE
    /\ tpc' = [tpc EXCEPT ![i] = "read"]
    /\ UNCHANGED <<providerNames, mpc, idx, wg, allBuckets, ret, client, err, buckets,
                   tmp, opens, closeCalls, log>>
    /\ UNCHANGED taskCalls
    /\ UNCHANGED svcFrame

\* mu.Lock()
TaskLock(i) ==
    /\ tpc[i] = "lock"
    /\ ~mu
    /\ mu' = TRUE
    /\ tpc' = [tpc EXCEPT ![i] = "read"]
    /\ UNCHANGED <<providerNames, mpc, idx, wg, allBuckets, ret, client, err, buckets,
                   tmp, opens, closeCalls, log>>
    /\ UNCHANGED taskCalls
    /\ UNCHANGED svcFrame

\* append(allBuckets, buckets...): the shared slice is read
TaskAppendRead(i) ==
    /\ tpc[i] = "read"
    /\ tmp' = [tmp EXCEPT ![i] = allBuckets]
    /\ tpc' = [tpc EXCEPT ![i] = "write"]
    /\ UNCHANGED <<providerNames, mpc, idx, wg, mu, allBuckets, ret, client, err,
                   buckets, opens, closeCalls, log>>
    /\ UNCHANGED taskCalls
    /\ UNCHANGED svcFrame

\* TaskAppendWrite storing the provider's buckets in place of the merged slice
TaskAppendWrite_Overwrite(i) ==
    /\ tpc[i] = "write"
    /\ allBuckets' = buckets[i]
    /\ tmp' = [tmp EXCEPT ![i] = <<>>]
    /\ tpc' = [tpc EXCEPT ![i] = "unlock"]
    /\ UNCHANGED <<providerNames, mpc, idx, wg, mu, ret, client, err, buckets, opens,
                   closeCalls, log>>
    /\ UNCHANGED taskCalls
    /\ UNCHANGED svcFrame

\* TaskAppendWrite adding the provider's buckets last to first
TaskAppendWrite_Reversed(i) ==
    /\ tpc[i] = "write"
    /\ allBuckets' = tmp[i] \o [j \in 1..Len(buckets[i]) |->
                                    buckets[i][Len(buckets[i]) + 1 - j]]
    /\ tmp' = [tmp EXCEPT ![i] = <<>>]
    /\ tpc' = [tpc EXCEPT ![i] = "unlock"]
    /\ UNCHANGED <<providerNames, mpc, idx, wg, mu, ret, client, err, buckets, opens,
                   closeCalls, log>>
    /\ UNCHANGED taskCalls
    /\ UNCHANGED svcFrame

\* allBuckets = append(...): the extended slice is stored
TaskAppendWrite(i) ==
    /\ tpc[i] = "write"
    /\ allBuckets' = tmp[i] \o buckets[i]
    /\ tmp' = [tmp EXCEPT ![i] = <<>>]
    /\ tpc' = [tpc EXCEPT ![i] = "unlock"]
    /\ UNCHANGED <<providerNames, mpc, idx, wg, mu, ret, client, err, buckets, opens,
                   closeCalls, log>>
    /\ UNCHANGED taskCalls
    /\ UNCHANGED svcFrame

\* mu.Unlock() and the success record
TaskUnlock(i) ==
    /\ tpc[i] = "unlock"
    /\ mu' = FALSE
    /\ log' = Logged(log, "DEBUG", "Successfully fetched buckets", providerNames[i])
    /\ tpc' = [tpc EXCEPT ![i] = "close"]
    /\ UNCHANGED <<providerNames, mpc, idx, wg, allBuckets, ret, client, err, buckets,
                   tmp, opens, closeCalls>>
    /\ UNCHANGED taskCalls
    /\ UNCHANGED svcFrame

\* the deferred client.Close()
TaskClose(i) ==
    /\ tpc[i] = "close"
    /\ closeCalls' = [closeCalls EXCEPT ![i] = @ + 1]
    /\ tpc' = [tpc EXCEPT ![i] = "wgdone"]
    /\ UNCHANGED <<providerNames, mpc, idx, wg, mu, allBuckets, ret, client, err,
                   buckets, tmp, opens, log>>
    /\ UNCHANGED taskCalls
    /\ UNCHANGED svcFrame

\* the deferred wg.Done()
TaskDone(i) ==
    /\ tpc[i] = "wgdone"
    /\ wg' = wg - 1
    /\ tpc' = [tpc EXCEPT ![i] = "exit"]
    /\ UNCHANGED <<providerNames, mpc, idx, mu, allBuckets, ret, client, err, buckets,
                   tmp, opens, closeCalls, log>>
    /\ UNCHANGED taskCalls
    /\ UNCHANGED svcFrame

\* WaitAndReturn without the wait
WaitAndReturn_NoJoin ==
    /\ mpc = "wait"
    /\ ret' = [buckets |-> allBuckets, err |-> ""]
    /\ mpc' = "returned"
    /\ UNCHANGED <<providerNames, idx, wg, mu, allBuckets, tpc, client, err, buckets,
                   tmp, opens, closeCalls, log>>
    /\ UNCHANGED taskCalls
    /\ UNCHANGED svcFrame

\* wg.Wait() and return allBuckets, nil
WaitAndReturn ==
    /\ mpc = "wait"
    /\ wg = 0
    /\ ret' = [buckets |-> allBuckets, err |-> ""]
    /\ mpc' = "returned"
    /\ UNCHANGED <<providerNames, idx, wg, mu, allBuckets, tpc, client, err, buckets,
                   tmp, opens, closeCalls, log>>
    /\ UNCHANGED taskCalls
    /\ UNCHANGED svcFrame

Init == InitEnv /\ InitService /\ InitOps /\ InitCallers /\ InitFactory

Next ==
    \/ \E names \in NameLists : ListAllBuckets(names)
    \/ Spawn
    \/ \E i \in Tasks : TaskResolve(i)
    \/ \E i \in Tasks : TaskListCall(i)
    \/ \E i \in Tasks : TaskListReturn(i)
    \/ \E i \in Tasks : TaskLock(i)
    \/ \E i \in Tasks : TaskAppendRead(i)
    \/ \E i \in Tasks : TaskAppendWrite(i)
    \/ \E i \in Tasks : TaskUnlock(i)
    \/ \E i \in Tasks : TaskClose(i)
    \/ \E i \in Tasks : TaskDone(i)
    \/ WaitAndReturn

Spec == Init /\ [][Next]_vars

----------------------------------------------------------------------------
(* ListAllBuckets: properties *)

\* the goroutines of the current call
Started == 1..Len(providerNames)

\* goroutine i ended with an error (resolve or ListBuckets)
Failed(i) == err[i] # ""

\* goroutine i's resolve failed
ResolveFailed(i) == err[i] \in {"unsupported", "notconfigured", "initfailed"}

\* the multiset of the elements of a sequence
SeqBag(s) ==
    [x \in {s[j] : j \in DOMAIN s} |-> Cardinality({j \in DOMAIN s : s[j] = x})]

\* what ListBuckets returned to the goroutines 1..n that did not fail, joined
RECURSIVE SuccessfulBuckets(_)
SuccessfulBuckets(n) ==
    IF n = 0 THEN <<>>
    ELSE SuccessfulBuckets(n - 1) \o (IF Failed(n) THEN <<>> ELSE buckets[n])

\* the number of ERROR records on the sink tagged with provider name n
ErrorRecords(n) ==
    CopiesIn(LogRecord("ERROR", "Failed to initialize provider client", n), log)
    + CopiesIn(LogRecord("ERROR", "Failed to list buckets from provider", n), log)

\* the goroutines inside the section mu protects
InAppend == {i \in Tasks : tpc[i] \in {"read", "write", "unlock"}}

\* C1: ListAllBuckets returns a nil error and exactly the multiset union of
\* the buckets of the providers whose ListBuckets succeeded
C1_PartialMerge ==
    mpc = "returned" =>
        /\ ret.err = ""
        /\ SeqBag(ret.buckets) = SeqBag(SuccessfulBuckets(Len(providerNames)))

\* C1 witness: a call returned with one provider failed after delivering
\* partial data and another one successful with two buckets
C1_Witness ==
    /\ mpc = "returned"
    /\ \E i, j \in Started :
         /\ err[i] = "operation failed" /\ buckets[i] # <<>>
         /\ ~Failed(j) /\ Len(buckets[j]) = 2

\* C2: at return every failed provider task has left exactly one ERROR record
\* tagged with its provider name, and a successful task none
C2_OneRecordPerFailure ==
    mpc = "returned" =>
        \A n \in ServiceNames :
            ErrorRecords(n) = Cardinality({i \in Started : providerNames[i] = n /\ Failed(i)})

\* C2 witness: a call returned with a resolve failure, under a name different
\* from that of a task that succeeded
C2_Witness ==
    /\ mpc = "returned"
    /\ \E i, j \in Started :
         /\ ResolveFailed(i) /\ ~Failed(j)
         /\ providerNames[i] # providerNames[j]

\* C4: when ListAllBuckets has returned, every goroutine it started has
\* finished
C4_JoinBarrier ==
    mpc = "returned" => \A i \in Started : tpc[i] = "exit"

\* C4 witness: a call with two providers returned
C4_Witness == mpc = "returned" /\ Len(providerNames) >= 2

\* C5: at most one goroutine is inside the append section, and at return the
\* result is as long as the bucket lists of the successful providers together
C5_SerializedAppend ==
    /\ Cardinality(InAppend) <= 1
    /\ mpc = "returned" => Len(ret.buckets) = Len(SuccessfulBuckets(Len(providerNames)))

\* C5 witness: one goroutine is between the read and the write of the append
\* while another one with buckets to add waits for the lock
C5_Witness ==
    \E i, j \in Started :
        /\ tpc[i] = "write" /\ tpc[j] = "lock"
        /\ buckets[i] # <<>> /\ buckets[j] # <<>>

\* C6: a client is closed at most once, only after its ListBuckets returned,
\* never when resolve failed, and at return every constructed client is closed
C6_CloseOncePerResolve ==
    /\ \A i \in Tasks :
         /\ closeCalls[i] <= opens[i] /\ opens[i] <= 1
         /\ tpc[i] \in {"none", "resolve", "list", "listing", "lock", "read", "write",
                        "unlock", "close"} => closeCalls[i] = 0
         /\ ResolveFailed(i) => opens[i] = 0 /\ closeCalls[i] = 0
    /\ mpc = "returned" => \A i \in Started : closeCalls[i] = opens[i]

\* C6 witness: a call returned with a client closed after its ListBuckets
\* failed, and with another task whose resolve failed
C6_Witness ==
    /\ mpc = "returned"
    /\ \E i, j \in Started :
         /\ err[i] = "operation failed" /\ closeCalls[i] = 1
         /\ ResolveFailed(j)

\* C8: with an empty argument the call is returned at once with an empty
\* result and a nil error; nothing is started, resolved, opened, closed or
\* logged
C8_EmptyReturnsAtOnce ==
    (providerNames = <<>> /\ mpc # "idle") =>
        /\ mpc = "returned"
        /\ ret = [buckets |-> <<>>, err |-> ""]
        /\ \A i \in Tasks : tpc[i] = "none" /\ opens[i] = 0 /\ closeCalls[i] = 0
        /\ wg = 0 /\ log = EmptyBag

\* C8 witness: a call with the empty argument has returned
C8_Witness == mpc = "returned" /\ providerNames = <<>>

\* the provider names that have an ERROR record on the sink
ProvidersWithErrorRecord == {n \in ServiceNames : ErrorRecords(n) > 0}

\* C3 as claimed: the values ListAllBuckets returns tell the caller which
\* providers failed. The returned values are the merged buckets and the error,
\* so a provider that failed operationally has to be told apart from one that
\* succeeded, by buckets of the successful one in the result or by the error
C3_CallerCanTellFailures ==
    mpc = "returned" =>
        \A i, j \in Started :
            (err[i] \in {"initfailed", "operation failed"} /\ ~Failed(j))
                => (ret.err # "" \/ \E k \in DOMAIN ret.buckets : ret.buckets[k] \in
                                       {buckets[j][l] : l \in DOMAIN buckets[j]})

\* C3 amended: the returned error is nil whatever failed, and the providers
\* that failed are exactly the ones the ERROR records on the sink name
C3_FailuresOnlyOnSink ==
    mpc = "returned" =>
        /\ ret.err = ""
        /\ ProvidersWithErrorRecord = {providerNames[i] : i \in {j \in Started : Failed(j)}}

\* C3 witness: a call returned an empty result and a nil error, one provider
\* having failed operationally and the other having no buckets
C3_Witness ==
    /\ mpc = "returned"
    /\ ret = [buckets |-> <<>>, err |-> ""]
    /\ \E i, j \in Started :
         /\ err[i] \in {"initfailed", "operation failed"}
         /\ ~Failed(j) /\ buckets[j] = <<>>

\* the goroutines that have made their GetStorageProvider call, and those
\* that have entered ListBuckets
PastResolve == {i \in Tasks : tpc[i] \notin {"none", "resolve"}}
PastListCall == {i \in Tasks : tpc[i] \notin {"none", "resolve", "list"} /\ opens[i] = 1}

\* C20: every goroutine of the fan-out makes its one GetStorageProvider call
\* and, when that succeeded, its one ListBuckets call with the caller's
\* context, whatever the other goroutines did: at every moment the calls made
\* are exactly those of the goroutines that have got that far, and at return
\* every name of the input has had its resolve and every client its
\* ListBuckets
C20_SiblingsNotAborted ==
    /\ \A i \in Tasks :
         /\ resolveCalls[i] = (IF i \in PastResolve THEN 1 ELSE 0)
         /\ listCalls[i] = (IF i \in PastListCall THEN 1 ELSE 0)
         /\ listCtx[i] = (IF i \in PastListCall THEN <<Ctx>> ELSE <<>>)
    /\ mpc = "returned" =>
         \A i \in Started :
             /\ resolveCalls[i] = 1
             /\ ResolveFailed(i) \/ opens[i] = 1
             /\ listCalls[i] = opens[i]

\* C20 witness: a call returned; one goroutine failed and its sibling made
\* both of its calls with the caller's context and delivered buckets
C20_Witness ==
    /\ mpc = "returned"
    /\ \E i, j \in Started :
         /\ Failed(i)
         /\ ~Failed(j) /\ resolveCalls[j] = 1 /\ listCalls[j] = 1
         /\ listCtx[j] = <<Ctx>> /\ buckets[j] # <<>>

----------------------------------------------------------------------------
(* StorageService: the single-provider operations *)

\* DescribeBucket, CreateBucket, DeleteBucket, ListObjects, DescribeObject
Ops == {"DescribeBucket", "CreateBucket", "DeleteBucket", "ListObjects", "DescribeObject"}

\* the operations that return a value besides the error
ValueOps == {"DescribeBucket", "ListObjects", "DescribeObject"}

\* the start record of each operation
StartMsg ==
    [DescribeBucket |-> "Starting DescribeBucket operation",
     CreateBucket |-> "Starting CreateBucket operation",
     DeleteBucket |-> "Starting DeleteBucket operation",
     ListObjects |-> "Starting ListObjects operation",
     DescribeObject |-> "Starting DescribeObject operation"]

\* the failure record of each operation
FailureMsg ==
    [DescribeBucket |-> "Failed to describe bucket",
     CreateBucket |-> "Failed to create bucket",
     DeleteBucket |-> "Failed to delete bucket",
     ListObjects |-> "Failed to list objects",
     DescribeObject |-> "Failed to describe object"]

\* what the operations leave alone
opFrame == <<envVars, svcVars, callerVars, facVars, cmdVars, auxVars>>

\* entry of an operation: the start record
OpStart(op, providerName) ==
    /\ spc = "idle"
    /\ sop' = [op |-> op, providerName |-> providerName]
    /\ log' = Logged(log, "DEBUG", StartMsg[op], providerName)
    /\ spc' = "resolve"
    /\ UNCHANGED <<sclient, sres, sopens, scloseCalls, scalls>>
    /\ UNCHANGED opFrame

\* getStorageClient with the operation going on to its capability call after
\* a failed resolve
getStorageClient_NotFailFast ==
    /\ spc = "resolve"
    /\ \E sdkOk \in BOOLEAN :
         LET r == GetStorageProvider(providerRegistry, cfg, sop.providerName, sdkOk)
         IN  IF r.kind # "ok"
             THEN /\ log' = Logged(log, "ERROR", "Failed to initialize provider",
                                   sop.providerName)
                  /\ sres' = [value |-> "", err |-> <<"error initializing provider", r.kind>>]
                  /\ spc' = "call"
                  /\ UNCHANGED <<sclient, sopens>>
             ELSE /\ sclient' = r.client
                  /\ sopens' = sopens + 1
                  /\ spc' = "call"
                  /\ UNCHANGED <<log, sres>>
    /\ UNCHANGED <<sop, scloseCalls, scalls>>
    /\ UNCHANGED opFrame

\* client, err := s.getStorageClient(ctx, providerName), and the error return
getStorageClient ==
    /\ spc = "resolve"
    /\ \E sdkOk \in BOOLEAN :
         LET r == GetStorageProvider(providerRegistry, cfg, sop.providerName, sdkOk)
         IN  IF r.kind # "ok"
             THEN /\ log' = Logged(log, "ERROR", "Failed to initialize provider",
                                   sop.providerName)
                  /\ sres' = [value |-> "", err |-> <<"error initializing provider", r.kind>>]
                  /\ spc' = "returned"
                  /\ UNCHANGED <<sclient, sopens>>
             ELSE /\ sclient' = r.client
                  /\ sopens' = sopens + 1
                  /\ spc' = "call"
                  /\ UNCHANGED <<log, sres>>
    /\ UNCHANGED <<sop, scloseCalls, scalls>>
    /\ UNCHANGED opFrame

\* OpCall with Close at the end of the function instead of deferred: the
\* error return skips it
OpCall_NoCloseOnError ==
    /\ spc = "call"
    /\ scalls' = scalls + 1
    /\ \E ok \in BOOLEAN :
         IF ok
         THEN /\ sres' = [value |-> IF sop.op \in ValueOps THEN sclient ELSE "", err |-> <<>>]
              /\ spc' = "close"
              /\ UNCHANGED log
         ELSE /\ sres' = [value |-> "", err |-> <<"operation failed">>]
              /\ log' = Logged(log, "ERROR", FailureMsg[sop.op], sop.providerName)
              /\ spc' = "return"
    /\ UNCHANGED <<sop, sclient, sopens, scloseCalls>>
    /\ UNCHANGED opFrame

\* the capability call on the client, and the error branch
OpCall ==
    /\ spc = "call"
    /\ scalls' = scalls + 1
    /\ \E ok \in BOOLEAN :
         IF ok
         THEN /\ sres' = [value |-> IF sop.op \in ValueOps THEN sclient ELSE "", err |-> <<>>]
              /\ UNCHANGED log
         ELSE /\ sres' = [value |-> "", err |-> <<"operation failed">>]
              /\ log' = Logged(log, "ERROR", FailureMsg[sop.op], sop.providerName)
    /\ spc' = "close"
    /\ UNCHANGED <<sop, sclient, sopens, scloseCalls>>
    /\ UNCHANGED opFrame

\* the deferred client.Close()
OpClose ==
    /\ spc = "close"
    /\ scloseCalls' = scloseCalls + 1
    /\ spc' = "return"
    /\ UNCHANGED <<sop, sclient, sres, sopens, scalls, log>>
    /\ UNCHANGED opFrame

\* the operation returns to its caller
OpReturn ==
    /\ spc = "return"
    /\ spc' = "returned"
    /\ UNCHANGED <<sop, sclient, sres, sopens, scloseCalls, scalls, log>>
    /\ UNCHANGED opFrame

NextOps ==
    \/ \E op \in Ops, n \in ServiceNames : OpStart(op, n)
    \/ getStorageClient
    \/ OpCall
    \/ OpClose
    \/ OpReturn

SpecOps == Init /\ [][NextOps]_vars

\* C7: a single-provider operation closes the client it resolved at most
\* once, only after its capability call has returned, and has closed it
\* exactly once when it returns; no Close when resolve failed
C7_OpClosesClient ==
    /\ scloseCalls <= sopens /\ sopens <= 1
    /\ spc \in {"idle", "resolve", "call", "close"} => scloseCalls = 0
    /\ scloseCalls = 1 => scalls = 1
    /\ spc = "returned" => scloseCalls = sopens
    /\ (spc = "returned" /\ sres.err # <<>> /\ sres.err[1] = "error initializing provider")
           => sopens = 0 /\ scloseCalls = 0

\* C7 witness: an operation returned the error of its capability call and
\* has closed its client
C7_Witness ==
    /\ spc = "returned"
    /\ sres.err = <<"operation failed">>
    /\ sopens = 1 /\ scloseCalls = 1

----------------------------------------------------------------------------
(* Registry: the functions, run by concurrent goroutines *)

\* the names callers pass to the registry
RegistryNames == {gcp, GCP, aws}

\* the registrations callers pass to RegisterProvider: complete ones and
\* ones with a function missing
Registrations ==
    {gcpRegistration, awsRegistration,
     [ConfigCheck |-> NilFunc, Initializer |-> "gcp.initialize"],
     [ConfigCheck |-> "gcp.isConfigured", Initializer |-> NilFunc]}

\* the functions that only read the map
Readers == {"IsSupported", "GetRegistration", "GetSupportedProviders", "GetAllRegistrations"}

\* what the registry functions leave alone
regFrame == <<cfg, log, svcVars, opVars, facVars, cmdVars, auxVars>>

\* a process at start: the map is empty, nothing is loaded
InitRegistry ==
    /\ providerRegistry = EmptyRegistry
    /\ registryMu = [writer |-> FALSE, readers |-> 0]
    /\ cfg = [GCP |-> <<>>, AWS |-> <<>>]
    /\ InitService /\ InitOps /\ InitCallers /\ InitFactory

\* map m with m[k] = v stored
MapSet(m, k, v) == [n \in DOMAIN m \cup {k} |-> IF n = k THEN v ELSE m[n]]

\* caller p enters RegisterProvider: registryMu.Lock()
Lock(p) ==
    /\ rpc[p] = "idle"
    /\ ~registryMu.writer /\ registryMu.readers = 0
    /\ registryMu' = [registryMu EXCEPT !.writer = TRUE]
    /\ rcall' = [rcall EXCEPT ![p] = [NoCall EXCEPT !.fn = "RegisterProvider"]]
    /\ rres' = [rres EXCEPT ![p] = NoResult]
    /\ rpc' = [rpc EXCEPT ![p] = "body"]
    /\ UNCHANGED providerRegistry
    /\ UNCHANGED regFrame

\* caller p enters the reading function fn: registryMu.RLock()
RLock(p, fn) ==
    /\ rpc[p] = "idle"
    /\ ~registryMu.writer
    /\ registryMu' = [registryMu EXCEPT !.readers = @ + 1]
    /\ rcall' = [rcall EXCEPT ![p] = [NoCall EXCEPT !.fn = fn]]
    /\ rres' = [rres EXCEPT ![p] = NoResult]
    /\ rpc' = [rpc EXCEPT ![p] = "body"]
    /\ UNCHANGED providerRegistry
    /\ UNCHANGED regFrame

\* RegisterProvider with the entry stored whether or not the name exists
RegisterProvider_Overwrite(p, name, registration) ==
    /\ rpc[p] = "body" /\ rcall[p].fn = "RegisterProvider"
    /\ rcall' = [rcall EXCEPT ![p].name = name, ![p].registration = registration]
    /\ LET normalizedName == ToLower(name)
       IN  IF registration.ConfigCheck = NilFunc
           THEN /\ rres' = [rres EXCEPT ![p].panic = "registration missing ConfigCheck"]
                /\ UNCHANGED providerRegistry
           ELSE IF registration.Initializer = NilFunc
           THEN /\ rres' = [rres EXCEPT ![p].panic = "registration missing Initializer"]
                /\ UNCHANGED providerRegistry
           ELSE /\ providerRegistry' = MapSet(providerRegistry, normalizedName, registration)
                /\ UNCHANGED rres
    /\ registryMu' = [registryMu EXCEPT !.writer = FALSE]
    /\ rpc' = [rpc EXCEPT ![p] = "done"]
    /\ UNCHANGED regFrame

\* RegisterProvider with the name used as given, not case-folded
RegisterProvider_KeepCase(p, name, registration) ==
    /\ rpc[p] = "body" /\ rcall[p].fn = "RegisterProvider"
    /\ rcall' = [rcall EXCEPT ![p].name = name, ![p].registration = registration]
    /\ LET normalizedName == name
       IN  IF normalizedName \in DOMAIN providerRegistry
           THEN /\ rres' = [rres EXCEPT ![p].panic = "already registered"]
                /\ UNCHANGED providerRegistry
           ELSE IF registration.ConfigCheck = NilFunc
           THEN /\ rres' = [rres EXCEPT ![p].panic = "registration missing ConfigCheck"]
                /\ UNCHANGED providerRegistry
           ELSE IF registration.Initializer = NilFunc
           THEN /\ rres' = [rres EXCEPT ![p].panic = "registration missing Initializer"]
                /\ UNCHANGED providerRegistry
           ELSE /\ providerRegistry' = MapSet(providerRegistry, normalizedName, registration)
                /\ UNCHANGED rres
    /\ registryMu' = [registryMu EXCEPT !.writer = FALSE]
    /\ rpc' = [rpc EXCEPT ![p] = "done"]
    /\ UNCHANGED regFrame

\* RegisterProvider without the two checks of the registration's functions
RegisterProvider_NoNilCheck(p, name, registration) ==
    /\ rpc[p] = "body" /\ rcall[p].fn = "RegisterProvider"
    /\ rcall' = [rcall EXCEPT ![p].name = name, ![p].registration = registration]
    /\ LET normalizedName == ToLower(name)
       IN  IF normalizedName \in DOMAIN providerRegistry
           THEN /\ rres' = [rres EXCEPT ![p].panic = "already registered"]
                /\ UNCHANGED providerRegistry
           ELSE /\ providerRegistry' = MapSet(providerRegistry, normalizedName, registration)
                /\ UNCHANGED rres
    /\ registryMu' = [registryMu EXCEPT !.writer = FALSE]
    /\ rpc' = [rpc EXCEPT ![p] = "done"]
    /\ UNCHANGED regFrame

\* RegisterProvider after Lock: the three panics, or the insert; then the
\* deferred registryMu.Unlock(), which runs on the panic path too
RegisterProvider(p, name, registration) ==
    /\ rpc[p] = "body" /\ rcall[p].fn = "RegisterProvider"
    /\ rcall' = [rcall EXCEPT ![p].name = name, ![p].registration = registration]
    /\ LET normalizedName == ToLower(name)
       IN  IF normalizedName \in DOMAIN providerRegistry
           THEN /\ rres' = [rres EXCEPT ![p].panic = "already registered"]
                /\ UNCHANGED providerRegistry
           ELSE IF registration.ConfigCheck = NilFunc
           THEN /\ rres' = [rres EXCEPT ![p].panic = "registration missing ConfigCheck"]
                /\ UNCHANGED providerRegistry
           ELSE IF registration.Initializer = NilFunc
           THEN /\ rres' = [rres EXCEPT ![p].panic = "registration missing Initializer"]
                /\ UNCHANGED providerRegistry
           ELSE /\ providerRegistry' = MapSet(providerRegistry, normalizedName, registration)
                /\ UNCHANGED rres
    /\ registryMu' = [registryMu EXCEPT !.writer = FALSE]
    /\ rpc' = [rpc EXCEPT ![p] = "done"]
    /\ UNCHANGED regFrame

\* GetSupportedProviders after RLock: the read, then the deferred registryMu.RUnlock()
GetSupportedProviders(p) ==
    /\ rpc[p] = "body" /\ rcall[p].fn = "GetSupportedProviders"
    /\ rres' = [rres EXCEPT ![p].providers = SupportedOf(providerRegistry)]
    /\ registryMu' = [registryMu EXCEPT !.readers = @ - 1]
    /\ rpc' = [rpc EXCEPT ![p] = "done"]
    /\ UNCHANGED <<providerRegistry, rcall>>
    /\ UNCHANGED regFrame

\* IsSupported after RLock: the read, then the deferred registryMu.RUnlock()
IsSupported(p, providerName) ==
    /\ rpc[p] = "body" /\ rcall[p].fn = "IsSupported"
    /\ rres' = [rres EXCEPT ![p].exists = IsSupportedIn(providerRegistry, providerName)]
    /\ registryMu' = [registryMu EXCEPT !.readers = @ - 1]
    /\ rpc' = [rpc EXCEPT ![p] = "done"]
    /\ rcall' = [rcall EXCEPT ![p].name = providerName]
    /\ UNCHANGED providerRegistry
    /\ UNCHANGED regFrame

\* GetRegistration after RLock: the read, then the deferred registryMu.RUnlock()
GetRegistration(p, providerName) ==
    /\ rpc[p] = "body" /\ rcall[p].fn = "GetRegistration"
    /\ LET r == GetRegistrationIn(providerRegistry, providerName)
       IN  rres' = [rres EXCEPT ![p].exists = r.exists, ![p].registration = r.registration]
    /\ registryMu' = [registryMu EXCEPT !.readers = @ - 1]
    /\ rpc' = [rpc EXCEPT ![p] = "done"]
    /\ rcall' = [rcall EXCEPT ![p].name = providerName]
    /\ UNCHANGED providerRegistry
    /\ UNCHANGED regFrame

\* GetAllRegistrations after RLock: the copy of the map, then the deferred
\* registryMu.RUnlock()
GetAllRegistrations(p) ==
    /\ rpc[p] = "body" /\ rcall[p].fn = "GetAllRegistrations"
    /\ rres' = [rres EXCEPT ![p].registrations =
                    [k \in DOMAIN providerRegistry |-> providerRegistry[k]]]
    /\ registryMu' = [registryMu EXCEPT !.readers = @ - 1]
    /\ rpc' = [rpc EXCEPT ![p] = "done"]
    /\ UNCHANGED <<providerRegistry, rcall>>
    /\ UNCHANGED regFrame

\* the caller has its result (or has recovered the panic) and goes on
RegistryReturn(p) ==
    /\ rpc[p] = "done"
    /\ rpc' = [rpc EXCEPT ![p] = "idle"]
    /\ rcall' = [rcall EXCEPT ![p] = NoCall]
    /\ rres' = [rres EXCEPT ![p] = NoResult]
    /\ UNCHANGED <<providerRegistry, registryMu>>
    /\ UNCHANGED regFrame

NextRegistry ==
    \/ \E p \in Callers : Lock(p)
    \/ \E p \in Callers, fn \in Readers : RLock(p, fn)
    \/ \E p \in Callers, n \in RegistryNames, r \in Registrations : RegisterProvider(p, n, r)
    \/ \E p \in Callers : GetSupportedProviders(p)
    \/ \E p \in Callers, n \in RegistryNames : IsSupported(p, n)
    \/ \E p \in Callers, n \in RegistryNames : GetRegistration(p, n)
    \/ \E p \in Callers : GetAllRegistrations(p)
    \/ \E p \in Callers : RegistryReturn(p)

SpecRegistry == InitRegistry /\ [][NextRegistry]_vars

----------------------------------------------------------------------------
(* Registry: properties *)

\* caller p's RegisterProvider runs its body in this step
RegisterStep(p) ==
    rpc[p] = "body" /\ rcall[p].fn = "RegisterProvider" /\ rpc'[p] = "done"

\* C9: no step removes or replaces an entry: a name that is supported stays
\* supported, under every letter case, with the same registration; and a
\* RegisterProvider(n, r) that does not panic leaves n supported with r
C9_AppendOnly ==
    [][/\ \/ providerRegistry' = providerRegistry
          \/ \A n \in RegistryNames :
                IsSupportedIn(providerRegistry, n) =>
                    /\ IsSupportedIn(providerRegistry', n)
                    /\ GetRegistrationIn(providerRegistry', n)
                           = GetRegistrationIn(providerRegistry, n)
       /\ \A p \in Callers :
            (RegisterStep(p) /\ rres'[p].panic = "") =>
                GetRegistrationIn(providerRegistry', rcall'[p].name)
                    = [registration |-> rcall'[p].registration, exists |-> TRUE]
      ]_vars

\* C9 witness: "gcp" is registered, a RegisterProvider("GCP", other) has
\* panicked on it, and a lookup of "GCP" has returned the first registration
C9_Witness ==
    /\ gcp \in DOMAIN providerRegistry
    /\ \E p, q \in Callers :
         /\ rpc[p] = "done" /\ rcall[p].fn = "RegisterProvider" /\ rcall[p].name = GCP
         /\ rcall[p].registration # providerRegistry[gcp]
         /\ rcall[p].registration \in {gcpRegistration, awsRegistration}
         /\ rres[p].panic = "already registered"
         /\ rpc[q] = "done" /\ rcall[q].fn = "GetRegistration" /\ rcall[q].name = GCP
         /\ rres[q].exists /\ rres[q].registration = providerRegistry[gcp]

\* C10: RegisterProvider panics exactly when the case-folded name is present
\* or a function of the registration is absent; a panicking call leaves the
\* map as it was, any other call adds the one entry lower(name) -> registration
\* and changes no other; the write lock is held only while a call is inside
\* and is free when the call has returned or panicked
C10_RegisterAbortsOrInserts ==
    /\ [](registryMu.writer <=>
            \E p \in Callers : rcall[p].fn = "RegisterProvider" /\ rpc[p] = "body")
    /\ [][\A p \in Callers :
            RegisterStep(p) =>
                LET normalizedName == ToLower(rcall'[p].name)
                    registration == rcall'[p].registration
                    aborts == \/ normalizedName \in DOMAIN providerRegistry
                              \/ registration.ConfigCheck = NilFunc
                              \/ registration.Initializer = NilFunc
                IN  /\ (rres'[p].panic # "") <=> aborts
                    /\ aborts => providerRegistry' = providerRegistry
                    /\ ~aborts =>
                         /\ DOMAIN providerRegistry' = DOMAIN providerRegistry \cup {normalizedName}
                         /\ providerRegistry'[normalizedName] = registration
                         /\ \A k \in DOMAIN providerRegistry :
                                providerRegistry'[k] = providerRegistry[k]
         ]_vars

\* C10 witness: RegisterProvider("GCP", complete registration) has panicked
\* on the entry "gcp", the map holds that entry alone and the lock is free
C10_Witness ==
    /\ DOMAIN providerRegistry = {gcp}
    /\ ~registryMu.writer /\ registryMu.readers = 0
    /\ \E p \in Callers :
         /\ rpc[p] = "done" /\ rcall[p].fn = "RegisterProvider" /\ rcall[p].name = GCP
         /\ rcall[p].registration = awsRegistration
         /\ rres[p].panic = "already registered"

----------------------------------------------------------------------------
(* Registry: RegisterProvider statement by statement, against the readers *)

\* RegisterProviderLock with a lock that never blocks
RegisterProviderLock_NoMutex(p, name, registration) ==
    /\ rpc[p] = "idle"
    /\ registryMu' = [registryMu EXCEPT !.writer = TRUE]
    /\ rcall' = [rcall EXCEPT ![p] = [fn |-> "RegisterProvider", name |-> name,
                                      registration |-> registration]]
    /\ rpc' = [rpc EXCEPT ![p] = "check"]
    /\ UNCHANGED <<providerRegistry, rres>>
    /\ UNCHANGED regFrame

\* RegisterProvider(name, registration) is called: registryMu.Lock()
RegisterProviderLock(p, name, registration) ==
    /\ rpc[p] = "idle"
    /\ ~registryMu.writer /\ registryMu.readers = 0
    /\ registryMu' = [registryMu EXCEPT !.writer = TRUE]
    /\ rcall' = [rcall EXCEPT ![p] = [fn |-> "RegisterProvider", name |-> name,
                                      registration |-> registration]]
    /\ rpc' = [rpc EXCEPT ![p] = "check"]
    /\ UNCHANGED <<providerRegistry, rres>>
    /\ UNCHANGED regFrame

\* the duplicate check and the two nil checks; a panic runs the deferred
\* registryMu.Unlock()
RegisterProviderCheck(p) ==
    /\ rpc[p] = "check"
    /\ LET normalizedName == ToLower(rcall[p].name)
           registration == rcall[p].registration
           panic == IF normalizedName \in DOMAIN providerRegistry
                    THEN "already registered"
                    ELSE IF registration.ConfigCheck = NilFunc
                    THEN "registration missing ConfigCheck"
                    ELSE IF registration.Initializer = NilFunc
                    THEN "registration missing Initializer"
                    ELSE ""
       IN  IF panic # ""
           THEN /\ rres' = [rres EXCEPT ![p].panic = panic]
                /\ registryMu' = [registryMu EXCEPT !.writer = FALSE]
                /\ rpc' = [rpc EXCEPT ![p] = "finished"]
           ELSE /\ rpc' = [rpc EXCEPT ![p] = "store"]
                /\ UNCHANGED <<rres, registryMu>>
    /\ UNCHANGED <<providerRegistry, rcall>>
    /\ UNCHANGED regFrame

\* providerRegistry[normalizedName] = registration, first half: the map has
\* the key, the value is not written yet
RegisterProviderStoreKey(p) ==
    /\ rpc[p] = "store"
    /\ providerRegistry' = MapSet(providerRegistry, ToLower(rcall[p].name), NoRegistration)
    /\ rpc' = [rpc EXCEPT ![p] = "storing"]
    /\ UNCHANGED <<registryMu, rcall, rres>>
    /\ UNCHANGED regFrame

\* providerRegistry[normalizedName] = registration, second half, and the
\* deferred registryMu.Unlock()
RegisterProviderStore(p) ==
    /\ rpc[p] = "storing"
    /\ providerRegistry' = MapSet(providerRegistry, ToLower(rcall[p].name),
                                  rcall[p].registration)
    /\ registryMu' = [registryMu EXCEPT !.writer = FALSE]
    /\ rpc' = [rpc EXCEPT ![p] = "finished"]
    /\ UNCHANGED <<rcall, rres>>
    /\ UNCHANGED regFrame

\* a reading function fn(providerName) is called: registryMu.RLock()
ReaderRLock(p, fn, providerName) ==
    /\ rpc[p] = "idle"
    /\ ~registryMu.writer
    /\ registryMu' = [registryMu EXCEPT !.readers = @ + 1]
    /\ rcall' = [rcall EXCEPT ![p] = [fn |-> fn, name |-> providerName,
                                      registration |-> NoRegistration]]
    /\ rpc' = [rpc EXCEPT ![p] = "read"]
    /\ UNCHANGED <<providerRegistry, rres>>
    /\ UNCHANGED regFrame

\* the body of the reading function and the deferred registryMu.RUnlock()
ReaderRead(p) ==
    /\ rpc[p] = "read"
    /\ LET r == GetRegistrationIn(providerRegistry, rcall[p].name)
       IN  rres' = [rres EXCEPT ![p] =
               IF rcall[p].fn = "IsSupported"
               THEN [NoResult EXCEPT !.exists = IsSupportedIn(providerRegistry, rcall[p].name)]
               ELSE IF rcall[p].fn = "GetRegistration"
               THEN [NoResult EXCEPT !.exists = r.exists, !.registration = r.registration]
               ELSE IF rcall[p].fn = "GetSupportedProviders"
               THEN [NoResult EXCEPT !.providers = SupportedOf(providerRegistry)]
               ELSE [NoResult EXCEPT !.registrations =
                        [k \in DOMAIN providerRegistry |-> providerRegistry[k]]]]
    /\ registryMu' = [registryMu EXCEPT !.readers = @ - 1]
    /\ rpc' = [rpc EXCEPT ![p] = "finished"]
    /\ UNCHANGED <<providerRegistry, rcall>>
    /\ UNCHANGED regFrame

\* the arguments of the reading functions: the two listing functions take none
ReaderCalls ==
    ({"IsSupported", "GetRegistration"} \X RegistryNames)
    \cup ({"GetSupportedProviders", "GetAllRegistrations"} \X {<<>>})

NextRace ==
    \/ \E p \in Callers, n \in RegistryNames, r \in Registrations :
           RegisterProviderLock(p, n, r)
    \/ \E p \in Callers : RegisterProviderCheck(p)
    \/ \E p \in Callers : RegisterProviderStoreKey(p)
    \/ \E p \in Callers : RegisterProviderStore(p)
    \/ \E p \in Callers, c \in ReaderCalls : ReaderRLock(p, c[1], c[2])
    \/ \E p \in Callers : ReaderRead(p)

\* every goroutine makes one call into a registry that starts empty
SpecRace == InitRegistry /\ [][NextRace]_vars

\* a registration with both functions
Complete(registration) ==
    registration.ConfigCheck # NilFunc /\ registration.Initializer # NilFunc

\* the goroutines whose RegisterProvider call is over, and those that
\* returned without a panic
Registered == {p \in Callers : rcall[p].fn = "RegisterProvider" /\ rpc[p] = "finished"}
Succeeded == {p \in Registered : rres[p].panic = ""}

\* the goroutines whose call passes a complete registration under a name
\* that folds to k
Racing(k) ==
    {p \in Callers : /\ rcall[p].fn = "RegisterProvider"
                     /\ ToLower(rcall[p].name) = k
                     /\ Complete(rcall[p].registration)}

\* C11: of the RegisterProvider calls racing on one case-folded name at most
\* one succeeds, and exactly one once they are all over (so calls with
\* distinct names all succeed); the entry of a call that succeeded is in the
\* map; a reader never gets an entry with a function missing, nor a name
\* whose entry is not complete
C11_RaceSafeRegistration ==
    /\ \A p, q \in Succeeded :
         p # q => ToLower(rcall[p].name) # ToLower(rcall[q].name)
    /\ \A p \in Succeeded :
         GetRegistrationIn(providerRegistry, rcall[p].name)
             = [registration |-> rcall[p].registration, exists |-> TRUE]
    /\ \A k \in {ToLower(n) : n \in RegistryNames} :
         (Racing(k) # {} /\ Racing(k) \subseteq Registered)
             => Cardinality(Racing(k) \cap Succeeded) = 1
    /\ \A p \in Callers :
         rpc[p] = "finished" =>
             /\ (rcall[p].fn = "GetRegistration" /\ rres[p].exists)
                    => /\ Complete(rres[p].registration)
                       /\ \E q \in Racing(ToLower(rcall[p].name)) :
                              rcall[q].registration = rres[p].registration
             /\ rcall[p].fn = "GetAllRegistrations"
                    => \A k \in DOMAIN rres[p].registrations :
                           Complete(rres[p].registrations[k])
             /\ rcall[p].fn \in {"GetSupportedProviders", "IsSupported"}
                    => \A k \in {rres[p].providers[j] : j \in DOMAIN rres[p].providers}
                              \cup (IF rres[p].exists THEN {ToLower(rcall[p].name)} ELSE {}) :
                           \E q \in Racing(k) : rpc[q] = "finished"

\* C11 witness: two calls raced on "GCP" and "gcp" with different complete
\* registrations; one succeeded and the other one panicked
C11_Witness ==
    \E p, q \in Registered :
        /\ rcall[p].name = GCP /\ rcall[q].name = gcp
        /\ rcall[p].registration = awsRegistration
        /\ rcall[q].registration = gcpRegistration
        /\ rres[p].panic = "" /\ rres[q].panic = "already registered"

----------------------------------------------------------------------------
(* Factory and provider-name validation, over registries and snapshots *)

\* " GCP", "S3 " and "az": requested names as a user types them
GCPsp == <<32, 71, 67, 80>>
S3sp == <<83, 51, 32>>
az == <<97, 122>>

\* the registries RegisterProvider can have built from the two backends
Registries ==
    UNION {[S -> {gcpRegistration, awsRegistration}] : S \in SUBSET {gcp, aws}}

\* the names callers pass to the factory
FactoryNames == {gcp, GCP, aws, s3}

\* the names of a --providers request
RequestNames == {gcp, GCPsp, aws, s3, S3sp, az}

\* the requests: up to MaxRequested names
Requests == UNION {[1..n -> RequestNames] : n \in 0..MaxRequested}

\* what the factory functions leave alone
facFrame == <<envVars, log, svcVars, opVars, callerVars, cmdVars, auxVars>>

\* a process whose registry and configuration are any of the above
InitFactoryEnv ==
    /\ providerRegistry \in Registries
    /\ registryMu = [writer |-> FALSE, readers |-> 0]
    /\ cfg \in Configs
    /\ InitService /\ InitOps /\ InitCallers /\ InitFactory

\* r's fields stored in a result
WithResult(r) ==
    [f \in DOMAIN NoFactoryResult |-> IF f \in DOMAIN r THEN r[f] ELSE NoFactoryResult[f]]

\* a call of f.GetConfiguredProviders()
CallGetConfiguredProviders ==
    /\ fcall = NoFactoryCall
    /\ fcall' = [NoFactoryCall EXCEPT !.fn = "GetConfiguredProviders"]
    /\ fres' = WithResult([providers |-> GetConfiguredProviders(providerRegistry, cfg)])
    /\ UNCHANGED facFrame

\* a call of f.IsConfigured(providerName)
CallIsConfigured(providerName) ==
    /\ fcall = NoFactoryCall
    /\ fcall' = [NoFactoryCall EXCEPT !.fn = "IsConfigured", !.name = providerName]
    /\ fres' = WithResult([configured |-> IsConfigured(providerRegistry, cfg, providerName)])
    /\ UNCHANGED facFrame

\* a call of f.GetStorageProvider(ctx, providerName)
CallGetStorageProvider(providerName, sdkOk) ==
    /\ fcall = NoFactoryCall
    /\ fcall' = [NoFactoryCall EXCEPT !.fn = "GetStorageProvider", !.name = providerName,
                                      !.sdkOk = sdkOk]
    /\ fres' = WithResult(GetStorageProvider(providerRegistry, cfg, providerName, sdkOk))
    /\ UNCHANGED facFrame

\* a call of resolveProvidersForList(requestedProviders, factory), for any
\* request
CallResolveProvidersForList ==
    /\ fcall = NoFactoryCall
    /\ \E requestedProviders \in Requests :
         /\ fcall' = [NoFactoryCall EXCEPT !.fn = "resolveProvidersForList",
                                           !.requested = requestedProviders]
         /\ fres' = WithResult(resolveProvidersForList(providerRegistry, cfg,
                                                       requestedProviders))
    /\ UNCHANGED facFrame

\* the call has returned to its caller
FactoryReturn ==
    /\ fcall # NoFactoryCall
    /\ fcall' = NoFactoryCall
    /\ fres' = NoFactoryResult
    /\ UNCHANGED facFrame

NextFactory ==
    \/ CallGetConfiguredProviders
    \/ \E n \in FactoryNames : CallIsConfigured(n)
    \/ \E n \in FactoryNames, sdkOk \in BOOLEAN : CallGetStorageProvider(n, sdkOk)
    \/ CallResolveProvidersForList
    \/ FactoryReturn

SpecFactory == InitFactoryEnv /\ [][NextFactory]_vars

\* the elements of a sequence
Elems(s) == {s[j] : j \in DOMAIN s}

\* a sequence without a repeated element
NoRepeat(s) == \A i, j \in DOMAIN s : i # j => s[i] # s[j]

\* the registered names whose configuration predicate holds for the snapshot
ConfiguredNames ==
    {n \in DOMAIN providerRegistry : ConfigCheck(providerRegistry[n], cfg)}

\* C12: GetConfiguredProviders returns exactly the registered names whose
\* configuration predicate holds for the snapshot, each once, all of them
\* among the names GetSupportedProviders returns
C12_ConfiguredSubsetOfSupported ==
    fcall.fn = "GetConfiguredProviders" =>
        /\ Elems(fres.providers) = ConfiguredNames
        /\ NoRepeat(fres.providers)
        /\ Elems(fres.providers) \subseteq Elems(SupportedOf(providerRegistry))
        /\ Elems(fres.providers) \subseteq DOMAIN providerRegistry

\* C12 witness: only "gcp" is registered, the snapshot configures both
\* backends, and the call returned ["gcp"]
C12_Witness ==
    /\ fcall.fn = "GetConfiguredProviders"
    /\ DOMAIN providerRegistry = {gcp}
    /\ gcpIsConfigured(cfg) /\ awsIsConfigured(cfg)
    /\ fres.providers = <<gcp>>

\* the case-folded name of the current factory call is registered
CallNameRegistered == ToLower(fcall.name) \in DOMAIN providerRegistry

\* the registration the current factory call's name stands for
CallRegistration == providerRegistry[ToLower(fcall.name)]

\* C13: GetStorageProvider for a name that is not registered fails with the
\* unsupported-provider error, which lists every registered name once;
\* no configuration predicate is evaluated and no client is constructed
C13_UnsupportedListsRegistered ==
    (fcall.fn = "GetStorageProvider" /\ ~CallNameRegistered) =>
        /\ fres.kind = "unsupported" /\ fres.client = ""
        /\ Elems(fres.supported) = DOMAIN providerRegistry
        /\ Len(fres.supported) = Cardinality(DOMAIN providerRegistry)
        /\ fres.checks = 0 /\ fres.inits = 0

\* C13 witness: "s3" was asked of a registry with both backends, only one of
\* them configured; the error lists both
C13_Witness ==
    /\ fcall.fn = "GetStorageProvider" /\ fcall.name = s3
    /\ fres.kind = "unsupported" /\ fres.supported = <<aws, gcp>>
    /\ Cardinality(ConfiguredNames) = 1

\* C14: GetStorageProvider for a registered name whose configuration
\* predicate is false for the snapshot fails with the not-configured error
\* naming the provider, and the constructor is not invoked
C14_NotConfiguredNoConstructor ==
    (/\ fcall.fn = "GetStorageProvider" /\ CallNameRegistered
     /\ ~ConfigCheck(CallRegistration, cfg)) =>
        /\ fres.kind = "notconfigured" /\ fres.client = ""
        /\ fres.name = ToLower(fcall.name)
        /\ fres.inits = 0

\* C14 witness: "GCP" was asked; "gcp" is registered, its project is empty
C14_Witness ==
    /\ fcall.fn = "GetStorageProvider" /\ fcall.name = GCP
    /\ gcp \in DOMAIN providerRegistry
    /\ cfg.GCP = <<[Project |-> ""]>>
    /\ fres.kind = "notconfigured" /\ fres.name = gcp

\* C15: GetStorageProvider for a registered and configured name invokes the
\* constructor once; its error comes back as the cause of an
\* initialization-failed error with no client, its client comes back with a
\* nil error
C15_ConstructorOnceCauseKept ==
    (/\ fcall.fn = "GetStorageProvider" /\ CallNameRegistered
     /\ ConfigCheck(CallRegistration, cfg)) =>
        LET i == Initializer(CallRegistration, cfg, fcall.sdkOk)
        IN  /\ fres.inits = 1
            /\ IF i.err # ""
               THEN fres.kind = "initfailed" /\ fres.cause = i.err /\ fres.client = ""
               ELSE fres.kind = "ok" /\ fres.client = i.client /\ fres.cause = ""

\* C15 witness: the constructor of a configured "gcp" failed and its error is
\* the cause of the returned error
C15_Witness ==
    /\ fcall.fn = "GetStorageProvider" /\ fcall.name = gcp
    /\ fres.kind = "initfailed"
    /\ fres.cause = "failed to create GCP storage client"

----------------------------------------------------------------------------
(* Registration and lookups under any letter case *)

\* one goroutine registers backends under cased names, and the factory is
\* called, under any configuration snapshot
InitCase ==
    /\ providerRegistry = EmptyRegistry
    /\ registryMu = [writer |-> FALSE, readers |-> 0]
    /\ cfg \in Configs
    /\ InitService /\ InitOps /\ InitCallers /\ InitFactory

NextCase ==
    \/ Lock(1)
    \/ \E n \in RegistryNames, r \in Registrations : RegisterProvider(1, n, r)
    \/ RegistryReturn(1)
    \/ \E n \in FactoryNames : CallIsConfigured(n)
    \/ \E n \in FactoryNames, sdkOk \in BOOLEAN : CallGetStorageProvider(n, sdkOk)
    \/ FactoryReturn

SpecCase == InitCase /\ [][NextCase]_vars

\* a letter in its other case, anything else as it is
Flip(ch) ==
    IF ch >= 65 /\ ch <= 90 THEN ch + 32
    ELSE IF ch >= 97 /\ ch <= 122 THEN ch - 32
    ELSE ch

\* the letter-case variants of a name
RECURSIVE Variants(_)
Variants(s) ==
    IF s = <<>> THEN {<<>>}
    ELSE {<<ch>> \o t : ch \in {Head(s), Flip(Head(s))}, t \in Variants(Tail(s))}

\* the names the lookups are compared on, each with its letter-case variants
NameVariants == UNION {{<<n, v>> : v \in Variants(n)} : n \in {gcp, aws, s3}}

\* two results of GetStorageProvider that stand for the same resolution: the
\* same in everything, but for the name as it was given that the
\* unsupported-provider error quotes
SameResolution(a, b) ==
    IF a.kind = "unsupported"
    THEN [a EXCEPT !.name = <<>>] = [b EXCEPT !.name = <<>>]
    ELSE a = b

\* C16: under every letter-case variant of a name IsSupported, GetRegistration,
\* Factory.IsConfigured and Factory.GetStorageProvider give what they give for
\* the name itself; and a name registered under any letter case is found with
\* its registration under every variant
C16_CaseInsensitiveNames ==
    /\ \A nv \in NameVariants :
         LET n == nv[1]
             v == nv[2]
         IN  /\ IsSupportedIn(providerRegistry, v) = IsSupportedIn(providerRegistry, n)
             /\ GetRegistrationIn(providerRegistry, v) = GetRegistrationIn(providerRegistry, n)
             /\ IsConfigured(providerRegistry, cfg, v) = IsConfigured(providerRegistry, cfg, n)
             /\ \A sdkOk \in BOOLEAN :
                  SameResolution(GetStorageProvider(providerRegistry, cfg, v, sdkOk),
                                 GetStorageProvider(providerRegistry, cfg, n, sdkOk))
    /\ (rpc[1] = "done" /\ rcall[1].fn = "RegisterProvider" /\ rres[1].panic = "") =>
          \A v \in Variants(rcall[1].name) :
              /\ IsSupportedIn(providerRegistry, v)
              /\ GetRegistrationIn(providerRegistry, v)
                     = [registration |-> rcall[1].registration, exists |-> TRUE]
              /\ IsConfigured(providerRegistry, cfg, v)
                     = ConfigCheck(rcall[1].registration, cfg)

\* C16 witness: "gcp" was registered as "GCP", its project is set, and
\* IsConfigured("gcp") has returned true
C16_Witness ==
    /\ rpc[1] = "done" /\ rcall[1].fn = "RegisterProvider" /\ rcall[1].name = GCP
    /\ rcall[1].registration = gcpRegistration /\ rres[1].panic = ""
    /\ fcall.fn = "IsConfigured" /\ fcall.name = gcp /\ fres.configured

\* the request of the current call, name by name, trimmed and lower-cased
Normalized == [j \in DOMAIN fcall.requested |-> ToLower(TrimSpace(fcall.requested[j]))]

\* the position of the first occurrence of x in sequence s
FirstIndex(s, x) == CHOOSE j \in DOMAIN s : s[j] = x /\ \A k \in 1..(j - 1) : s[k] # x

\* the requested names that are not registered, and those that are
\* registered with a false configuration predicate
UnsupportedRequested == Elems(Normalized) \ DOMAIN providerRegistry
UnconfiguredRequested == (Elems(Normalized) \cap DOMAIN providerRegistry) \ ConfiguredNames

\* C17: for a non-empty request of registered and configured names the
\* result is, with a nil error, the normalized names without repetition in
\* the order of their first occurrence; for the empty request it is
\* GetConfiguredProviders()
C17_ResolveNormalizesAndDedups ==
    fcall.fn = "resolveProvidersForList" =>
        /\ (fcall.requested # <<>> /\ Elems(Normalized) \subseteq ConfiguredNames) =>
              /\ fres.kind = ""
              /\ NoRepeat(fres.providers)
              /\ Elems(fres.providers) = Elems(Normalized)
              /\ Elems(fres.providers) \subseteq ConfiguredNames
              /\ \A i, j \in DOMAIN fres.providers :
                    i < j => FirstIndex(Normalized, fres.providers[i])
                                 < FirstIndex(Normalized, fres.providers[j])
        /\ fcall.requested = <<>> =>
              /\ fres.kind = ""
              /\ fres.providers = GetConfiguredProviders(providerRegistry, cfg)
              /\ Elems(fres.providers) = ConfiguredNames

\* C17 witness: ["aws", " GCP", "gcp"] was resolved to ["aws", "gcp"]
C17_Witness ==
    /\ fcall.fn = "resolveProvidersForList"
    /\ fcall.requested = <<aws, GCPsp, gcp>>
    /\ fres.kind = "" /\ fres.providers = <<aws, gcp>>

\* C18: a non-empty request with an unsupported name is rejected with the
\* aggregate unsupported-providers error that lists every unsupported name
\* of the request once, also when the request has supported, unconfigured
\* names; a request with no unsupported name and an unconfigured one is
\* rejected with an error naming that provider
C18_UnsupportedAlwaysAggregated ==
    (fcall.fn = "resolveProvidersForList" /\ fcall.requested # <<>>) =>
        /\ UnsupportedRequested # {} =>
              /\ fres.kind = "unsupported"
              /\ Elems(fres.invalid) = UnsupportedRequested
              /\ NoRepeat(fres.invalid)
        /\ (UnsupportedRequested = {} /\ UnconfiguredRequested # {}) =>
              /\ fres.kind = "notconfigured"
              /\ fres.name \in UnconfiguredRequested

----------------------------------------------------------------------------
(* The list-buckets command: validation, then the fan-out *)

\* what the command's own steps leave alone
cmdFrame == <<envVars, log, svcVars, opVars, callerVars, auxVars>>

\* RunE going on with the valid names of a request that validation rejected
RunE_SkipInvalid ==
    /\ cpc = "idle"
    /\ \E providersList \in Requests :
         LET r == resolveProvidersForList(providerRegistry, cfg, providersList)
             normalized == {ToLower(TrimSpace(providersList[j])) : j \in DOMAIN providersList}
         IN  /\ fcall' = [NoFactoryCall EXCEPT !.fn = "resolveProvidersForList",
                                               !.requested = providersList]
             /\ fres' = WithResult(r)
             /\ IF r.kind # ""
                THEN /\ cmdret' = [NoCmdResult EXCEPT
                                     !.providers =
                                         SelectSeq(GetConfiguredProviders(providerRegistry, cfg),
                                                   LAMBDA n : n \in normalized),
                                     !.err = WithResult(r)]
                     /\ cpc' = "validated"
                ELSE /\ cmdret' = [NoCmdResult EXCEPT !.providers = r.providers]
                     /\ cpc' = "validated"
    /\ UNCHANGED cmdFrame

\* listBucketsCmd.RunE up to the validation: resolveProvidersForList on the
\* --providers flag, and the return of its error
RunE ==
    /\ cpc = "idle"
    /\ \E providersList \in Requests :
         LET r == resolveProvidersForList(providerRegistry, cfg, providersList)
         IN  /\ fcall' = [NoFactoryCall EXCEPT !.fn = "resolveProvidersForList",
                                               !.requested = providersList]
             /\ fres' = WithResult(r)
             /\ IF r.kind # ""
                THEN /\ cmdret' = [NoCmdResult EXCEPT !.err = WithResult(r)]
                     /\ cpc' = "returned"
                ELSE /\ cmdret' = [NoCmdResult EXCEPT !.providers = r.providers]
                     /\ cpc' = "validated"
    /\ UNCHANGED cmdFrame

\* app.StorageService.ListAllBuckets(cmd.Context(), providersToQuery) is called
RunEListAllBuckets ==
    /\ cpc = "validated"
    /\ ListAllBuckets(cmdret.providers)

\* ListAllBuckets has returned: the output, and return nil
RunEPrint ==
    /\ cpc = "validated" /\ mpc = "returned"
    /\ cmdret' = [cmdret EXCEPT !.out =
                     IF Len(ret.buckets) > 0 THEN "bucket list"
                     ELSE IF Len(cmdret.providers) = 0 THEN "No providers configured."
                     ELSE "No buckets found."]
    /\ cpc' = "returned"
    /\ UNCHANGED <<facVars, cmdFrame>>

NextList ==
    \/ RunE
    \/ RunEListAllBuckets
    \/ Spawn
    \/ \E i \in Tasks : TaskResolve(i)
    \/ \E i \in Tasks : TaskListCall(i)
    \/ \E i \in Tasks : TaskListReturn(i)
    \/ \E i \in Tasks : TaskLock(i)
    \/ \E i \in Tasks : TaskAppendRead(i)
    \/ \E i \in Tasks : TaskAppendWrite(i)
    \/ \E i \in Tasks : TaskUnlock(i)
    \/ \E i \in Tasks : TaskClose(i)
    \/ \E i \in Tasks : TaskDone(i)
    \/ WaitAndReturn
    \/ RunEPrint

SpecList == Init /\ [][NextList]_vars

\* ListAllBuckets has not been called and no provider has been touched
NothingStarted ==
    /\ mpc = "idle"
    /\ \A i \in Tasks :
         /\ tpc[i] = "none"
         /\ resolveCalls[i] = 0 /\ opens[i] = 0 /\ listCalls[i] = 0 /\ closeCalls[i] = 0

\* C19: a request with an unsupported or unconfigured name makes the command
\* return the validation error with ListAllBuckets never called and no
\* constructor, ListBuckets or Close invoked; and ListAllBuckets runs only on
\* the validated names of a request that passed
C19_ValidationBeforeFanOut ==
    /\ (/\ fcall.fn = "resolveProvidersForList" /\ fcall.requested # <<>>
        /\ UnsupportedRequested \cup UnconfiguredRequested # {}) =>
           /\ cpc = "returned" /\ cmdret.err.kind \in {"unsupported", "notconfigured"}
           /\ NothingStarted
    /\ cmdret.err.kind # "" => NothingStarted
    /\ ~NothingStarted =>
           /\ cpc \in {"validated", "returned"}
           /\ providerNames = cmdret.providers
           /\ Elems(providerNames) \subseteq ConfiguredNames

\* C19 witness: ["gcp", "az"] with "gcp" configured was rejected and nothing
\* was started
C19_Witness ==
    /\ cpc = "returned" /\ fcall.requested = <<gcp, az>>
    /\ gcpIsConfigured(cfg)
    /\ cmdret.err.kind = "unsupported" /\ cmdret.err.invalid = <<az>>
    /\ NothingStarted

----------------------------------------------------------------------------
(* ListAllBuckets under a cancelled context *)

\* what the context and the blocking calls leave alone
ctxFrame ==
    <<log, svcVars, envVars, opVars, callerVars, facVars, cmdVars, visited, delVars, gcpVars,
      startup, gsp>>

\* the caller cancels ctx while ListAllBuckets is running; nothing in
\* ListAllBuckets reads ctx, it is only handed on to the provider calls
Cancel ==
    /\ mpc \in {"loop", "wait"}
    /\ ~cancelled
    /\ cancelled' = TRUE
    /\ UNCHANGED hung
    /\ UNCHANGED ctxFrame

\* the backend's ListBuckets blocks for good: a call that does not observe ctx
Hang(i) ==
    /\ tpc[i] = "listing"
    /\ ~hung[i]
    /\ hung' = [hung EXCEPT ![i] = TRUE]
    /\ UNCHANGED cancelled
    /\ UNCHANGED ctxFrame

\* client.ListBuckets(ctx) returns, unless the call is one that never does
TaskListReturnLive(i) == ~hung[i] /\ TaskListReturn(i)

\* the statements of goroutine i
TaskStep(i) ==
    \/ TaskResolve(i)
    \/ TaskListCall(i)
    \/ TaskListReturnLive(i)
    \/ TaskLock(i)
    \/ TaskAppendRead(i)
    \/ TaskAppendWrite(i)
    \/ TaskUnlock(i)
    \/ TaskClose(i)
    \/ TaskDone(i)

\* the statements of the calling goroutine once ListAllBuckets is entered
MainStep == Spawn \/ WaitAndReturn

NextLive ==
    \/ \E names \in NameLists : ListAllBuckets(names)
    \/ MainStep
    \/ \E i \in Tasks : TaskStep(i)
    \/ Cancel
    \/ \E i \in Tasks : Hang(i)

\* the Go scheduler runs every goroutine that can take a step
Fairness ==
    /\ WF_vars(MainStep)
    /\ \A i \in Tasks : WF_vars(TaskStep(i))

SpecLive == Init /\ [][NextLive]_vars /\ Fairness

\* C21: once the context is cancelled during ListAllBuckets, ListAllBuckets
\* eventually returns, also when a provider's blocking call never returns
C21_ReturnsAfterCancel == cancelled ~> (mpc = "returned")

\* the same with every provider call returning: then the join does end
JoinEndsWhenCallsReturn ==
    (cancelled /\ \A i \in Tasks : ~hung[i]) ~>
        (mpc = "returned" \/ \E i \in Tasks : hung[i])

----------------------------------------------------------------------------
(* The name lists and the order of map iteration *)

\* every order in which one range over a map with key set S can visit the keys
RangeOrders(S) == {o \in [1..Cardinality(S) -> S] : Elems(o) = S}

\* GetSupportedProviders returning the names as the range met them
GetSupportedProvidersRange_Unsorted(order) == order

\* registry.GetSupportedProviders when the range visits the keys in `order`:
\* the appends, then sort.Strings
GetSupportedProvidersRange(order) == SortStrings(order)

\* Factory.GetConfiguredProviders when the range over the copied map visits
\* the keys in `order`: the filter, the appends, then sort.Strings
GetConfiguredProvidersRange(m, c, order) ==
    SortStrings(SelectSeq(order, LAMBDA name : ConfigCheck(m[name], c)))

\* the names and registrations registered in any order
OrderNames == {gcp, aws, s3}
OrderRegistrations == {gcpRegistration, awsRegistration}

\* what the calls below leave alone
orderFrame ==
    <<envVars, log, svcVars, opVars, callerVars, cmdVars, ctxVars, delVars, gcpVars,
      startup, gsp>>

\* a call of registry.GetSupportedProviders(): the range takes any order
CallGetSupportedProvidersRange ==
    /\ fcall = NoFactoryCall
    /\ ~registryMu.writer
    /\ \E order \in RangeOrders(DOMAIN providerRegistry) :
         /\ visited' = order
         /\ fres' = WithResult([providers |-> GetSupportedProvidersRange(order)])
    /\ fcall' = [NoFactoryCall EXCEPT !.fn = "GetSupportedProviders"]
    /\ UNCHANGED orderFrame

\* a call of f.GetConfiguredProviders(): the range takes any order
CallGetConfiguredProvidersRange ==
    /\ fcall = NoFactoryCall
    /\ ~registryMu.writer
    /\ \E order \in RangeOrders(DOMAIN providerRegistry) :
         /\ visited' = order
         /\ fres' = WithResult([providers |->
                        GetConfiguredProvidersRange(providerRegistry, cfg, order)])
    /\ fcall' = [NoFactoryCall EXCEPT !.fn = "GetConfiguredProviders"]
    /\ UNCHANGED orderFrame

\* an empty registry and any configuration
InitOrder ==
    /\ providerRegistry = EmptyRegistry
    /\ registryMu = [writer |-> FALSE, readers |-> 0]
    /\ cfg \in Configs
    /\ InitService /\ InitOps /\ InitCallers /\ InitFactory

NextOrder ==
    \/ Lock(1)
    \/ \E n \in OrderNames, r \in OrderRegistrations : RegisterProvider(1, n, r)
    \/ RegistryReturn(1)
    \/ CallGetSupportedProvidersRange
    \/ CallGetConfiguredProvidersRange
    \/ FactoryReturn

SpecOrder == InitOrder /\ [][NextOrder]_vars

\* strictly ascending: sorted, and no name twice
Ascending(s) == \A j \in 1..(Len(s) - 1) : StrLess(s[j], s[j + 1])

\* C22: GetSupportedProviders and GetConfiguredProviders return their names
\* in ascending order without duplicates, and the result is the same for
\* every order in which the map could have been iterated, whatever the order
\* of the registrations that built the map
C22_SortedWhateverTheOrder ==
    /\ fcall.fn = "GetSupportedProviders" =>
         /\ Ascending(fres.providers)
         /\ Elems(fres.providers) = Elems(visited)
         /\ \A o \in RangeOrders(Elems(visited)) :
                GetSupportedProvidersRange(o) = fres.providers
    /\ fcall.fn = "GetConfiguredProviders" =>
         /\ Ascending(fres.providers)
         /\ Elems(fres.providers) =
                {n \in Elems(visited) : ConfigCheck(providerRegistry[n], cfg)}
         /\ \A o \in RangeOrders(Elems(visited)) :
                GetConfiguredProvidersRange(providerRegistry, cfg, o) = fres.providers

\* C22 witness: three names were registered and the range met them in
\* descending order, yet the list came back ascending
C22_Witness ==
    /\ fcall.fn = "GetSupportedProviders"
    /\ visited = <<s3, gcp, aws>>
    /\ fres.providers = <<aws, gcp, s3>>

----------------------------------------------------------------------------
(* The delete-bucket command and its confirmation prompt *)

\* bucket names given on the command line: "", "b", "b2"
DeleteBucketNames == {<<>>, <<98>>, <<98, 50>>}

\* the --provider values of the command
DeleteProviders == {gcp, s3}

\* what standard input holds up to its first line end: "", "b", " b\r", "B",
\* "b2", "b 2"; and how the line ends: a newline, the end of the input, or a
\* failing read
StdinData == {<<>>, <<98>>, <<32, 98, 13>>, <<66>>, <<98, 50>>, <<98, 32, 50>>}
Stdins == [data : StdinData, term : {"newline", "EOF", "error"}]

\* bufio.Reader.ReadString('\n'): the bytes read, the delimiter included when
\* it was met, and the error otherwise
ReadString(stdin) ==
    [input |-> IF stdin.term = "newline" THEN stdin.data \o <<10>> ELSE stdin.data,
     err |-> IF stdin.term = "newline" THEN "" ELSE stdin.term]

\* Confirm taking any line that was read as a confirmation
Confirm_AnyLine(stdin, expectedValue) ==
    IF expectedValue = <<>>
    THEN [confirmed |-> FALSE, prompted |-> FALSE,
          err |-> <<"expected confirmation value cannot be empty">>]
    ELSE LET r == ReadString(stdin)
         IN  IF r.err = "EOF"
             THEN [confirmed |-> FALSE, prompted |-> TRUE, err |-> <<>>]
             ELSE IF r.err # ""
             THEN [confirmed |-> FALSE, prompted |-> TRUE,
                   err |-> <<"error reading user input", r.err>>]
             ELSE [confirmed |-> TRUE, prompted |-> TRUE, err |-> <<>>]

\* StandardPrompter.Confirm(message, expectedValue) on standard input stdin
Confirm(stdin, expectedValue) ==
    IF expectedValue = <<>>
    THEN [confirmed |-> FALSE, prompted |-> FALSE,
          err |-> <<"expected confirmation value cannot be empty">>]
    ELSE LET r == ReadString(stdin)
         IN  IF r.err = "EOF"
             THEN [confirmed |-> FALSE, prompted |-> TRUE, err |-> <<>>]
             ELSE IF r.err # ""
             THEN [confirmed |-> FALSE, prompted |-> TRUE,
                   err |-> <<"error reading user input", r.err>>]
             ELSE [confirmed |-> TrimSpace(r.input) = expectedValue, prompted |-> TRUE,
                   err |-> <<>>]

ErrOperationAborted == <<"operation aborted by the user">>

\* what the command leaves alone besides the service operation it calls
delFrame ==
    <<envVars, log, svcVars, opVars, callerVars, facVars, cmdVars, ctxVars, visited, gcpVars,
      startup, gsp>>

\* RunE of delete-bucket up to the call of DeleteBucket: the arguments, the
\* --force test and the confirmation
DeleteRunE ==
    /\ dpc = "idle"
    /\ \E bucketName \in DeleteBucketNames, providerName \in DeleteProviders,
          force \in BOOLEAN, stdin \in Stdins :
         LET c == [NoDeleteCmd EXCEPT !.bucketName = bucketName,
                                      !.providerName = providerName,
                                      !.force = force, !.stdin = stdin]
             r == Confirm(stdin, bucketName)
         IN  IF force
             THEN /\ dcmd' = c
                  /\ dpc' = "delete"
                  /\ UNCHANGED dret
             ELSE /\ dcmd' = [c EXCEPT !.prompted = r.prompted, !.confirmed = r.confirmed]
                  /\ IF r.err # <<>>
                     THEN /\ dret' = [err |-> <<"failed to read confirmation input">> \o r.err,
                                      out |-> ""]
                          /\ dpc' = "returned"
                     ELSE IF ~r.confirmed
                     THEN /\ dret' = [err |-> ErrOperationAborted,
                                      out |-> "Deletion aborted"]
                          /\ dpc' = "returned"
                     ELSE /\ dpc' = "delete"
                          /\ UNCHANGED dret
    /\ UNCHANGED delFrame

\* app.StorageService.DeleteBucket(cmd.Context(), bucketName, providerName)
DeleteRunECall ==
    /\ dpc = "delete"
    /\ OpStart("DeleteBucket", dcmd.providerName)

\* DeleteBucket has returned: the wrapped error, or the success line
DeleteRunEReturn ==
    /\ dpc = "delete"
    /\ spc = "returned"
    /\ dret' = IF sres.err # <<>>
               THEN [err |-> <<"error deleting bucket">> \o sres.err, out |-> ""]
               ELSE [err |-> <<>>, out |-> "deleted successfully"]
    /\ dpc' = "returned"
    /\ UNCHANGED dcmd
    /\ UNCHANGED delFrame

NextDelete ==
    \/ DeleteRunE
    \/ DeleteRunECall
    \/ getStorageClient
    \/ OpCall
    \/ OpClose
    \/ OpReturn
    \/ DeleteRunEReturn

SpecDelete == Init /\ [][NextDelete]_vars

\* StorageService.DeleteBucket has not been called: no provider resolved, no
\* client built, no bucket deleted
NoDeleteStarted == spc = "idle" /\ sopens = 0 /\ scalls = 0

\* the line Confirm read, when it read a whole one
LineRead == dcmd.prompted /\ dcmd.stdin.term = "newline"

\* C23: DeleteBucket is called only with --force or after Confirm answered
\* true; Confirm answers true only when the line read, trimmed, equals the
\* bucket name; when the line does not match or the input ends the command
\* returns ErrOperationAborted, when the read fails it returns an error that
\* wraps the read error, and in these cases (as when Confirm refuses an empty
\* name without reading) DeleteBucket is never called
C23_DeleteNeedsConfirmation ==
    /\ ~NoDeleteStarted => (dcmd.force \/ dcmd.confirmed)
    /\ dcmd.confirmed =>
         /\ LineRead
         /\ TrimSpace(dcmd.stdin.data \o <<10>>) = dcmd.bucketName
    /\ (dpc = "returned" /\ dcmd.prompted /\ ~dcmd.confirmed) =>
         /\ NoDeleteStarted
         /\ dcmd.stdin.term \in {"newline", "EOF"} => dret.err = ErrOperationAborted
         /\ dcmd.stdin.term = "error" =>
              /\ Len(dret.err) > 1
              /\ dret.err[Len(dret.err)] = "error"
              /\ dret.err # ErrOperationAborted
    /\ (dpc # "idle" /\ ~dcmd.force /\ dcmd.bucketName = <<>>) =>
         /\ dpc = "returned" /\ dret.err # <<>> /\ NoDeleteStarted

\* C23 witness: without --force, the line "B" was typed for bucket "b": the
\* command returned ErrOperationAborted and nothing was started
C23_Witness ==
    /\ dpc = "returned" /\ ~dcmd.force
    /\ dcmd.bucketName = <<98>> /\ dcmd.stdin = [data |-> <<66>>, term |-> "newline"]
    /\ dret.err = ErrOperationAborted
    /\ NoDeleteStarted

\* a confirmed deletion: " b\r" typed for bucket "b", and the bucket deleted
DeleteConfirmedAndDone ==
    /\ dpc = "returned" /\ ~dcmd.force /\ dcmd.confirmed
    /\ dcmd.stdin.data = <<32, 98, 13>> /\ scalls = 1 /\ dret.err = <<>>

----------------------------------------------------------------------------
(* The GCP backend: bucket usage from the Monitoring API *)

\* the longest metrics response
MaxSeries == 2

\* the buckets of the project
UsageBucketNames == {"b1", "b2"}

\* monitoringpb.TypedValue: nil, an int64, a double (v counts tenths: 0.0,
\* 0.4, 1.5), or a value of another type
TypedValues ==
    {[kind |-> "nil", v |-> 0], [kind |-> "int64", v |-> 0], [kind |-> "int64", v |-> 5],
     [kind |-> "double", v |-> 0], [kind |-> "double", v |-> 4],
     [kind |-> "double", v |-> 15], [kind |-> "bool", v |-> 1]}

\* the resource labels of a time series: with or without "bucket_name"
LabelMaps ==
    {[k \in {"bucket_name"} |-> n] : n \in UsageBucketNames} \cup {[k \in {} |-> ""]}

\* one aggregated time series: no point, or one
TimeSeries == [labels : LabelMaps, points : {<<>>} \cup {<<v>> : v \in TypedValues}]

\* the bucket a series is grouped under, "" when it has no such label
SeriesBucket(resp) ==
    IF "bucket_name" \in DOMAIN resp.labels THEN resp.labels["bucket_name"] ELSE ""

\* what the monitoring client answers: the series the iterator yields (one
\* per bucket_name at most, as the request groups by it) and how it ends, or
\* no client at all
MetricsResponses ==
    {[series |-> s, end |-> e] :
        s \in {t \in UNION {[1..n -> TimeSeries] : n \in 0..MaxSeries} :
                 \A i, j \in DOMAIN t :
                     (i # j /\ SeriesBucket(t[i]) # "") =>
                         SeriesBucket(t[i]) # SeriesBucket(t[j])},
        e \in {"Done", "error"}}
    \cup {[series |-> <<>>, end |-> "client error"]}

\* what the storage client answers to Buckets(ctx, projectID)
Listings ==
    {[names |-> s, end |-> e] :
        s \in {t \in UNION {[1..n -> UsageBucketNames] : n \in 0..MaxBuckets} :
                 \A i, j \in DOMAIN t : i # j => t[i] # t[j]},
        e \in {"Done", "error"}}

\* math.Round of a non-negative double given in tenths
Round(tenths) == (tenths + 5) \div 10

\* extractUsageValue with the sentinel for a value it cannot read
extractUsageValue_Sentinel(pointValue) ==
    IF pointValue.kind = "nil" THEN -1
    ELSE IF pointValue.kind = "double" THEN Round(pointValue.v)
    ELSE IF pointValue.kind = "int64" THEN pointValue.v
    ELSE -1

\* extractUsageValue
extractUsageValue(pointValue) ==
    IF pointValue.kind = "nil" THEN 0
    ELSE IF pointValue.kind = "double" THEN Round(pointValue.v)
    ELSE IF pointValue.kind = "int64" THEN pointValue.v
    ELSE 0

\* the loop of getAllBucketUsages over the series the iterator yields
RECURSIVE usageLoop(_, _)
usageLoop(series, usageMap) ==
    IF series = <<>> THEN usageMap
    ELSE LET resp == Head(series)
         IN  IF "bucket_name" \notin DOMAIN resp.labels
             THEN usageLoop(Tail(series), usageMap)
             ELSE IF Len(resp.points) > 0
             THEN usageLoop(Tail(series),
                            MapSet(usageMap, resp.labels["bucket_name"],
                                   extractUsageValue(resp.points[1])))
             ELSE usageLoop(Tail(series), usageMap)

\* GCPStorage.getAllBucketUsages
getAllBucketUsages(metrics) ==
    IF metrics.end = "client error"
    THEN [usageMap |-> [n \in {} |-> 0], err |-> "failed to create monitoring client"]
    ELSE IF metrics.end = "error"
    THEN [usageMap |-> [n \in {} |-> 0], err |-> "error getting metric data"]
    ELSE [usageMap |-> usageLoop(metrics.series, [n \in {} |-> 0]), err |-> ""]

\* GCPStorage.getSingleBucketUsage
getSingleBucketUsage(metrics) ==
    IF metrics.end = "client error"
    THEN [usage |-> -1, err |-> "failed to create monitoring client"]
    ELSE IF metrics.series = <<>>
    THEN [usage |-> -1,
          err |-> IF metrics.end = "Done" THEN "ErrMetricsNotFound"
                  ELSE "error getting metric data"]
    ELSE IF Len(metrics.series[1].points) > 0
    THEN [usage |-> extractUsageValue(metrics.series[1].points[1]), err |-> ""]
    ELSE [usage |-> -1, err |-> "ErrMetricsNotFound"]

\* storage.Bucket as the GCP backend fills it, reduced to name and usage
UsageBucket(name, usage) == [Name |-> name, Provider |-> "gcp", UsageBytes |-> usage]

\* GCPStorage.ListBuckets
GCPListBuckets(metrics, listing) ==
    LET u == getAllBucketUsages(metrics)
    IN  IF u.err # ""
        THEN [buckets |-> <<>>, err |-> "failed to retrieve GCP bucket usage metrics"]
        ELSE IF listing.end = "error"
        THEN [buckets |-> <<>>, err |-> "error listing buckets metadata"]
        ELSE [buckets |->
                [j \in 1..Len(listing.names) |->
                    UsageBucket(listing.names[j],
                                IF listing.names[j] \in DOMAIN u.usageMap
                                THEN u.usageMap[listing.names[j]] ELSE -1)],
              err |-> ""]

\* GCPStorage.DescribeBucket
GCPDescribeBucket(bucketName, attrsOk, metrics) ==
    IF ~attrsOk
    THEN [buckets |-> <<>>, err |-> "error getting bucket attributes"]
    ELSE LET u == getSingleBucketUsage(metrics)
         IN  [buckets |-> <<UsageBucket(bucketName, IF u.err # "" THEN -1 ELSE u.usage)>>,
              err |-> ""]

\* what the backend calls leave alone
gcpFrame ==
    <<envVars, log, svcVars, opVars, callerVars, facVars, cmdVars, ctxVars, visited, delVars,
      startup, gsp>>

\* a call of ListBuckets on the GCP client
CallGCPListBuckets ==
    /\ ucall = NoUsageCall
    /\ \E metrics \in MetricsResponses, listing \in Listings :
         /\ ucall' = [fn |-> "ListBuckets", bucketName |-> "", metrics |-> metrics,
                      listing |-> listing]
         /\ ures' = GCPListBuckets(metrics, listing)
    /\ UNCHANGED gcpFrame

\* a call of DescribeBucket on the GCP client: the metrics request is
\* filtered by the bucket's name
CallGCPDescribeBucket ==
    /\ ucall = NoUsageCall
    /\ \E bucketName \in UsageBucketNames, attrsOk \in BOOLEAN :
       \E metrics \in {m \in MetricsResponses :
                          /\ Len(m.series) <= 1
                          /\ \A j \in DOMAIN m.series :
                                 SeriesBucket(m.series[j]) \in {bucketName, ""}} :
         /\ ucall' = [fn |-> "DescribeBucket", bucketName |-> bucketName,
                      metrics |-> metrics,
                      listing |-> [names |-> <<bucketName>>,
                                   end |-> IF attrsOk THEN "Done" ELSE "error"]]
         /\ ures' = GCPDescribeBucket(bucketName, attrsOk, metrics)
    /\ UNCHANGED gcpFrame

\* the call is over
UsageReturn ==
    /\ ucall # NoUsageCall
    /\ ucall' = NoUsageCall
    /\ ures' = NoUsageResult
    /\ UNCHANGED gcpFrame

\* a process whose configuration has the gcp block
InitGCP ==
    /\ providerRegistry = BuiltinRegistry
    /\ registryMu = [writer |-> FALSE, readers |-> 0]
    /\ cfg = [GCP |-> <<[Project |-> "proj"]>>, AWS |-> <<>>]
    /\ InitService /\ InitOps /\ InitCallers /\ InitFactory

NextGCP ==
    \/ CallGCPListBuckets
    \/ CallGCPDescribeBucket
    \/ UsageReturn

SpecGCP == InitGCP /\ [][NextGCP]_vars

\* the point values the backend obtained for bucket n during the call:
\* ListBuckets reads the whole response and keeps the series grouped under n,
\* DescribeBucket reads the first series of its filtered response
Reported(n) ==
    IF ucall.fn = "DescribeBucket"
    THEN IF ucall.metrics.series # <<>> /\ Len(ucall.metrics.series[1].points) > 0
         THEN {ucall.metrics.series[1].points[1]}
         ELSE {}
    ELSE IF ucall.metrics.end # "Done" THEN {}
    ELSE {ucall.metrics.series[j].points[1] :
            j \in {k \in DOMAIN ucall.metrics.series :
                     /\ Len(ucall.metrics.series[k].points) > 0
                     /\ SeriesBucket(ucall.metrics.series[k]) = n}}

\* a value of a recognised numeric type
Numeric(v) == v.kind \in {"int64", "double"}

\* a numeric value of zero bytes (for a double: nearer to 0 than to 1)
ZeroBytes(v) ==
    \/ v.kind = "int64" /\ v.v = 0
    \/ v.kind = "double" /\ v.v < 5

\* C24: every Bucket the GCP backend produces has UsageBytes = -1 when its
\* usage could not be determined (no series for it, no data point, a failed
\* lookup, an absent value or one of an unrecognised type), and has
\* UsageBytes = 0 only when the backend reported zero bytes
C24_SentinelNotZero ==
    \A j \in DOMAIN ures.buckets :
        LET b == ures.buckets[j]
        IN  /\ (\A v \in Reported(b.Name) : ~Numeric(v)) => b.UsageBytes = -1
            /\ b.UsageBytes = 0 => \E v \in Reported(b.Name) : ZeroBytes(v)

\* ListBuckets returned a bucket with zero usage for an absent metric value
UsageZeroForAbsentValue ==
    /\ ucall.fn = "ListBuckets"
    /\ \E j \in DOMAIN ures.buckets :
         /\ ures.buckets[j].UsageBytes = 0
         /\ Reported(ures.buckets[j].Name) = {[kind |-> "nil", v |-> 0]}

----------------------------------------------------------------------------
(* The list command: what the fan-out can fail with *)

\* C25: in the list command every goroutine of the fan-out is started for a
\* registered and configured name, no GetStorageProvider call of the fan-out
\* returns the unsupported-provider or the not-configured error, and every
\* error of the fan-out comes from a client constructor or from ListBuckets
C25_FanOutSeesValidNames ==
    \A i \in Tasks :
        /\ tpc[i] # "none" =>
             /\ i \in DOMAIN providerNames
             /\ providerNames[i] \in ConfiguredNames
        /\ err[i] \notin {"unsupported", "notconfigured"}
        /\ err[i] # "" => err[i] \in {"initfailed", "operation failed"}

\* C25 witness: an explicit request passed validation, and in the fan-out
\* one constructor failed and one ListBuckets failed
C25_Witness ==
    /\ cpc = "validated" /\ fcall.requested # <<>>
    /\ \E i, j \in Tasks :
         /\ resolveCalls[i] = 1 /\ err[i] = "initfailed"
         /\ listCalls[j] = 1 /\ err[j] = "operation failed"

----------------------------------------------------------------------------
(* Single-provider operations: validation errors *)

\* what the factory answers for the operation's provider name, the
\* constructor's outcome left aside
ValidationKind ==
    GetStorageProvider(providerRegistry, cfg, sop.providerName, TRUE).kind

\* C26: a single-provider operation whose provider is unsupported or not
\* configured returns an error wrapping the factory's error without any
\* capability call and without a client; an operation whose resolve
\* succeeded makes its capability call exactly once and returns that call's
\* value or error as it is
C26_FailFastOnValidation ==
    /\ (spc # "idle" /\ ValidationKind \in {"unsupported", "notconfigured"}) =>
         /\ scalls = 0 /\ sopens = 0 /\ sclient = ""
         /\ spc \in {"resolve", "returned"}
         /\ spc = "returned" =>
              sres = [value |-> "", err |-> <<"error initializing provider", ValidationKind>>]
    /\ scalls <= 1
    /\ scalls = 1 => sopens = 1
    /\ sopens = 1 =>
         /\ spc = "call" => scalls = 0
         /\ spc \in {"close", "return", "returned"} =>
              /\ scalls = 1
              /\ \/ sres = [value |-> IF sop.op \in ValueOps THEN sclient ELSE "",
                            err |-> <<>>]
                 \/ sres = [value |-> "", err |-> <<"operation failed">>]

\* C26 witness: DeleteBucket on the unsupported "s3" returned the wrapped
\* unsupported-provider error and made no call
C26_Witness ==
    /\ spc = "returned" /\ sop = [op |-> "DeleteBucket", providerName |-> s3]
    /\ sres.err = <<"error initializing provider", "unsupported">>
    /\ scalls = 0 /\ sopens = 0

\* an operation on a configured provider made its one call and returned
OpSucceeded == spc = "returned" /\ sopens = 1 /\ scalls = 1 /\ sres.err = <<>>

----------------------------------------------------------------------------
(* Process start-up: the backends register themselves *)

\* registry.RegisterProvider(name, registration) on map m: the map afterwards
\* and the panic message, "" when it returned
RegisterProviderIn(m, name, registration) ==
    LET normalizedName == ToLower(name)
    IN  IF normalizedName \in DOMAIN m
        THEN [registry |-> m, panic |-> "already registered"]
        ELSE IF registration.ConfigCheck = NilFunc
        THEN [registry |-> m, panic |-> "registration missing ConfigCheck"]
        ELSE IF registration.Initializer = NilFunc
        THEN [registry |-> m, panic |-> "registration missing Initializer"]
        ELSE [registry |-> MapSet(m, normalizedName, registration), panic |-> ""]

\* what an init function leaves alone
startFrame ==
    <<registryMu, cfg, log, svcVars, opVars, callerVars, facVars, cmdVars, ctxVars, visited,
      delVars, gcpVars, gsp>>

\* the init function of package pkg calls RegisterProvider(name, registration);
\* a panic ends the process
PackageInit(pkg, name, registration) ==
    /\ ~startup.main /\ startup.panic = ""
    /\ pkg \notin startup.ran
    /\ LET r == RegisterProviderIn(providerRegistry, name, registration)
       IN  /\ providerRegistry' = r.registry
           /\ startup' = [startup EXCEPT !.ran = @ \cup {pkg}, !.panic = r.panic]
    /\ UNCHANGED startFrame

\* gcp.init registering without an Initializer
gcpInit_NoInitializer ==
    PackageInit(gcp, gcp, [ConfigCheck |-> "gcp.isConfigured", Initializer |-> NilFunc])

\* gcp.init
gcpInit == PackageInit(gcp, gcp, gcpRegistration)

\* aws.init
awsInit == PackageInit(aws, aws, awsRegistration)

\* every imported backend is initialised: main is entered
mainStart ==
    /\ ~startup.main /\ startup.panic = ""
    /\ startup.ran = {aws, gcp}
    /\ startup' = [startup EXCEPT !.main = TRUE]
    /\ UNCHANGED providerRegistry
    /\ UNCHANGED startFrame

\* the process image before any init function has run
InitStartup ==
    /\ providerRegistry = EmptyRegistry
    /\ registryMu = [writer |-> FALSE, readers |-> 0]
    /\ cfg \in Configs
    /\ startup = [ran |-> {}, panic |-> "", main |-> FALSE]
    /\ InitService /\ InitOps /\ InitCallers /\ InitCalls

NextStartup ==
    \/ gcpInit
    \/ awsInit
    \/ mainStart
    \/ startup.main /\ CallGetSupportedProvidersRange
    \/ startup.main /\ CallGetConfiguredProvidersRange
    \/ startup.main /\ \E n \in FactoryNames : CallIsConfigured(n)
    \/ startup.main /\ \E n \in FactoryNames, sdkOk \in BOOLEAN : CallGetStorageProvider(n, sdkOk)
    \/ FactoryReturn

SpecStartup == InitStartup /\ [][NextStartup]_vars

----------------------------------------------------------------------------
(* Factory.GetStorageProvider while RegisterProvider calls are running *)

\* the names registered while the resolve runs, and the names resolved
RaceNames == {aws, s3}

\* what one statement of GetStorageProvider leaves alone
gspFrame ==
    <<envVars, log, svcVars, opVars, callerVars, facVars, cmdVars, ctxVars, visited,
      delVars, gcpVars, startup>>

\* registration, exists := registry.GetRegistration(normalizedName): one
\* read-locked section
ResolveLookup(providerName) ==
    /\ gsp.pc = "idle"
    /\ ~registryMu.writer
    /\ LET r == GetRegistrationIn(providerRegistry, ToLower(providerName))
       IN  gsp' = [NoResolve EXCEPT !.pc = IF r.exists THEN "found" ELSE "missing",
                                    !.providerName = providerName,
                                    !.exists = r.exists,
                                    !.registration = r.registration]
    /\ UNCHANGED gspFrame

\* the !exists branch: registry.GetSupportedProviders(), a second read-locked
\* section, and the unsupported-provider error built from its answer
ResolveSupported ==
    /\ gsp.pc = "missing"
    /\ ~registryMu.writer
    /\ gsp' = [gsp EXCEPT !.pc = "returned", !.kind = "unsupported",
                          !.supported = SupportedOf(providerRegistry)]
    /\ UNCHANGED gspFrame

\* the rest of GetStorageProvider for a registration that was found
ResolveConstruct ==
    /\ gsp.pc = "found"
    /\ \E sdkOk \in BOOLEAN :
         gsp' = [gsp EXCEPT !.pc = "returned",
                            !.kind = IF ~ConfigCheck(gsp.registration, cfg)
                                     THEN "notconfigured"
                                     ELSE IF Initializer(gsp.registration, cfg, sdkOk).err # ""
                                     THEN "initfailed" ELSE "ok"]
    /\ UNCHANGED gspFrame

\* GetStorageProvider has returned to its caller
ResolveReturn ==
    /\ gsp.pc = "returned"
    /\ gsp' = NoResolve
    /\ UNCHANGED gspFrame

\* a process in which only gcp has registered so far
InitResolveRace ==
    /\ providerRegistry = [n \in {gcp} |-> gcpRegistration]
    /\ registryMu = [writer |-> FALSE, readers |-> 0]
    /\ cfg \in Configs
    /\ InitService /\ InitOps /\ InitCallers /\ InitFactory

NextResolveRace ==
    \/ \E p \in Callers : Lock(p)
    \/ \E p \in Callers, n \in RaceNames : RegisterProvider(p, n, awsRegistration)
    \/ \E p \in Callers : RegistryReturn(p)
    \/ \E n \in RaceNames \cup {GCP} : ResolveLookup(n)
    \/ ResolveSupported
    \/ ResolveConstruct
    \/ ResolveReturn

SpecResolveRace == InitResolveRace /\ [][NextResolveRace]_vars

\* C28: the supported-name list in an unsupported-provider error never holds
\* the case-folded name the error is about, also when RegisterProvider calls
\* run concurrently with the resolve
C28_UnsupportedNameNotListed ==
    (gsp.pc = "returned" /\ gsp.kind = "unsupported") =>
        ToLower(gsp.providerName) \notin Elems(gsp.supported)

\* the resolve of "s3" missed it, "s3" was registered, and the error lists it
UnsupportedNameListed ==
    /\ gsp.pc = "returned" /\ gsp.kind = "unsupported"
    /\ gsp.providerName = s3
    /\ gsp.supported = <<gcp, s3>>

\* without a registration in between the list does not hold the name
UnsupportedNameNotListedWhenQuiet ==
    (gsp.pc = "returned" /\ gsp.kind = "unsupported"
        /\ ToLower(gsp.providerName) \notin DOMAIN providerRegistry) =>
        ToLower(gsp.providerName) \notin Elems(gsp.supported)

----------------------------------------------------------------------------
(* ListAllBuckets: the order of the merged result *)

\* the goroutines whose buckets were appended
Appended == {i \in Started : ~Failed(i) /\ tpc[i] \in {"unlock", "close", "wgdone", "exit"}}

\* every order in which the goroutines of S can have taken the lock
LockOrders(S) ==
    {o \in [1..Cardinality(S) -> S] : \A j, k \in DOMAIN o : j # k => o[j] # o[k]}

\* the buckets of the goroutines of `order`, block after block
RECURSIVE Blocks(_)
Blocks(order) ==
    IF order = <<>> THEN <<>> ELSE buckets[Head(order)] \o Blocks(Tail(order))

\* C29: the result of ListAllBuckets is the blocks of the successful
\* goroutines laid end to end, each block being what that provider's
\* ListBuckets returned, in its order; only the order of the blocks varies
C29_ContiguousBlocks ==
    mpc = "returned" =>
        \E order \in LockOrders(Appended) : ret.buckets = Blocks(order)

\* C29 witness: two providers returned two buckets each, the second
\* goroutine appended first, and the result is its block followed by the
\* first goroutine's block
C29_Witness ==
    /\ mpc = "returned" /\ Appended = {1, 2}
    /\ client[1] # client[2]
    /\ Len(buckets[1]) = 2 /\ Len(buckets[2]) = 2
    /\ ret.buckets = buckets[2] \o buckets[1]

----------------------------------------------------------------------------
(* Registry: what the factory can find in it *)

\* C30: every key of the registry is its own lower-case form and every stored
\* registration has its ConfigCheck and its Initializer, and so has every
\* registration a reader was handed; the factory, which calls only functions
\* of registrations it got from the registry, never calls an absent one
C30_KeysFoldedRegistrationsComplete ==
    /\ \A n \in DOMAIN providerRegistry :
         /\ ToLower(n) = n
         /\ Complete(providerRegistry[n])
    /\ \A p \in Callers :
         /\ rres[p].exists /\ rcall[p].fn = "GetRegistration" =>
                Complete(rres[p].registration)
         /\ \A n \in DOMAIN rres[p].registrations :
                ToLower(n) = n /\ Complete(rres[p].registrations[n])

\* C30 witness: "GCP" was registered and is stored under "gcp" with both
\* functions, and a reader was handed the copy of the map
C30_Witness ==
    /\ DOMAIN providerRegistry = {gcp}
    /\ \E p, q \in Callers :
         /\ rpc[p] = "done" /\ rcall[p].fn = "RegisterProvider"
         /\ rcall[p].name = GCP /\ rres[p].panic = ""
         /\ rpc[q] = "done" /\ rcall[q].fn = "GetAllRegistrations"
         /\ DOMAIN rres[q].registrations = {gcp}

====
